---- MODULE Spec2Model ----
(***************************************************************************)
(* Model of the auto-labeling engine (GitHubAutoLabeler) and of the label  *)
(* operations of the gateway (GitHubClient) it drives.                     *)
(*                                                                         *)
(* Text is modelled as a sequence of lower-cased words; a rule pattern of  *)
(* the shape /\b(w1|w2|...)\b/i is the set of its words, and it matches a  *)
(* text when one of the text's words is in the set.                        *)
(*                                                                         *)
(* run() is an async function: every action below is the code that runs    *)
(* from one await to the next, the gateway call at that await included.    *)
(* The engine is used as its documentation asks: addRule, addRules,        *)
(* setConfig and run() are called between runs, never while a run is       *)
(* suspended at a gateway call, and nothing else changes the repository.   *)
(***************************************************************************)
EXTENDS Integers, Sequences, FiniteSets, TLC

(* ------------------------------ bounds --------------------------------- *)
MaxRules == 2
MaxIssues == 2
MaxRuns == 2

(* --------------------------- small helpers ----------------------------- *)
Range(s) == {s[i] : i \in 1..Len(s)}

Contains(s, x) == \E i \in 1..Len(s) : s[i] = x

RECURSIVE SeqFilter(_, _)
SeqFilter(s, keep) ==
  IF s = <<>> THEN <<>>
  ELSE IF Head(s) \in keep THEN <<Head(s)>> \o SeqFilter(Tail(s), keep)
       ELSE SeqFilter(Tail(s), keep)

NoDup(s) == \A i, j \in 1..Len(s) : s[i] = s[j] => i = j

(* ------------------------------ data ----------------------------------- *)
LabelNames == {"bug", "security"}

\* a color string: an optional leading '#' and the rest
Color(hash, hex) == [hash |-> hash, hex |-> hex]

Colors == {Color(FALSE, "0075ca"), Color(TRUE, "ff0000"), Color(FALSE, "")}

IssueStates == {"open", "closed", "all"}

\* JavaScript truthiness of a color string: only '' is falsy
Truthy(c) == c.hash \/ c.hex # ""

DEFAULT_CONFIG ==
  [createMissingLabels |-> FALSE,
   defaultLabelColor |-> Color(FALSE, "0075ca"),
   relabelExistingIssues |-> TRUE,
   issueState |-> "open"]

ConfigFields == DOMAIN DEFAULT_CONFIG

\* mutation: the fields that partial leaves out go back to their defaults
MergeConfig_Replace(base, partial) ==
  [f \in ConfigFields |-> IF f \in DOMAIN partial THEN partial[f] ELSE DEFAULT_CONFIG[f]]

\* { ...base, ...partial }
MergeConfig(base, partial) ==
  [f \in ConfigFields |-> IF f \in DOMAIN partial THEN partial[f] ELSE base[f]]

\* the Partial<AutoLabelConfig> values given to the constructor and setConfig
ConfigPartials ==
  {<<>>}
  \cup {[createMissingLabels |-> b] : b \in BOOLEAN}
  \cup {[relabelExistingIssues |-> b] : b \in BOOLEAN}
  \cup {[defaultLabelColor |-> c] : c \in Colors}
  \cup {[issueState |-> s] : s \in IssueStates}
  \cup {[createMissingLabels |-> TRUE, relabelExistingIssues |-> FALSE]}

LabelingRule(pattern, labels) == [pattern |-> pattern, labels |-> labels]

\* CommonLabelingRules.bug (vocabulary cut to the model's words), and a
\* caller-made rule proposing two labels, one of them twice
CommonLabelingRules ==
  [bug |-> LabelingRule({"bug", "crash"}, <<"bug">>)]

AuthRule == LabelingRule({"auth"}, <<"security", "bug", "security">>)

\* the rules given to addRule and addRules
RuleInputs == {CommonLabelingRules.bug, AuthRule}

\* rule.pattern.test(text)
PatternTest(pattern, text) == \E i \in 1..Len(text) : text[i] \in pattern

\* The issues of the repository.  A body is absent or a text.
Body(absent, words) == [absent |-> absent, words |-> words]

RepoIssueNumbers == 1..MaxIssues

RepoIssueTitle(n) ==
  CASE n = 1 -> <<"crash">>
    [] n = 2 -> <<"login">>
    [] OTHER -> <<"docs">>

RepoIssueBody(n) ==
  CASE n = 1 -> Body(TRUE, <<>>)
    [] n = 2 -> Body(FALSE, <<"auth", "crash">>)
    [] OTHER -> Body(FALSE, <<"typo">>)

RepoIssueState(n) == IF n % 2 = 0 THEN "closed" ELSE "open"

\* `${issue.title} ${issue.body || ''}`
IssueText(issue) ==
  issue.title \o (IF issue.body.absent THEN <<>> ELSE issue.body.words)

GatewayErrors == {"HttpError"}

VARIABLES
  rules,                \* this.rules
  config,               \* this.config
  repoLabels,           \* names of the labels of the remote repository
  issueLabels,          \* issue number -> names of the labels on the issue
  pc,                   \* where run() stands
  runs,                 \* number of run() invocations so far
  issues,               \* run(): const issues
  idx,                  \* run(): position of the for-of loop over issues
  availableLabelNames,  \* run(): const availableLabelNames
  labelsToAdd,          \* run(): labelsToAdd, in insertion order
  ci,                   \* run(): position of the loop over Array.from(labelsToAdd)
  result,               \* run(): const result
  outcome,              \* how the last run() ended
  calls,                \* gateway calls of the current run(), in order
  trace,                \* per issue that reached the filter of the current
                        \* run(): its number and the known-label set then
  prev,                 \* kept by SpecSucc only: the outcome of the run()
                        \* before the current one and whether a createLabel
                        \* call of it failed, when the current one was invoked
                        \* right after it (nothing done on the engine in between)
  defaultConfig,        \* the module-level object DEFAULT_CONFIG
  other,                \* SpecAsync only: the locals of a second run()
                        \* invocation on the engine, suspended at an await
  atRun,                \* SpecAsync only: this.rules and this.config as they
                        \* were when the current run() was invoked
  direct,               \* SpecGateway only: the last call made on the
                        \* GitHubClient by a caller other than the engine
  clone,                \* SpecClone only: GitHubClient.cloneRepository, its
                        \* retries counter and the attempts it has made
  handled               \* SpecActions only: the last run of a label action
                        \* handler

vars == <<rules, config, repoLabels, issueLabels, pc, runs, issues, idx,
          availableLabelNames, labelsToAdd, ci, result, outcome, calls, trace, prev,
          defaultConfig, other, atRun, direct, clone, handled>>

engineVars == <<rules, config>>
gatewayVars == <<repoLabels, issueLabels>>
\* what only the wider specifications change
frameVars == <<defaultConfig, other, atRun, direct, clone, handled>>

EmptyResult ==
  [totalIssues |-> 0, labeledIssues |-> 0, labelsCreated |-> 0, details |-> <<>>]

NoOutcome == [kind |-> "none", error |-> "", value |-> EmptyResult]
Returned(r) == [kind |-> "returned", error |-> "", value |-> r]
Threw(e) == [kind |-> "threw", error |-> e, value |-> EmptyResult]

NoPrev == [valid |-> FALSE, outcome |-> NoOutcome, createFailed |-> FALSE]

\* no rule list and configuration remembered
NoSnapshot == [valid |-> FALSE, rules |-> <<>>, config |-> <<>>]

\* a call made on the client by a caller other than the engine, with its
\* arguments and what it did
Direct(op, issueNumber, labels, name, color, description, ran) ==
  [op |-> op, issueNumber |-> issueNumber, labels |-> labels, name |-> name,
   color |-> color, description |-> description, requests |-> ran.requests,
   replies |-> ran.replies, err |-> ran.err, ret |-> ran.ret]

\* no such call yet
NoDirect ==
  [op |-> "none", issueNumber |-> 0, labels |-> [array |-> TRUE, items |-> <<>>],
   name |-> "", color |-> [hash |-> FALSE, hex |-> ""], description |-> <<>>,
   requests |-> <<>>, replies |-> <<>>, err |-> "", ret |-> {}]

\* cloneRepository not called yet, the repository path not there
NoClone ==
  [pc |-> "idle", retries |-> 0, attempts |-> <<>>, outcome |-> "none", error |-> "",
   exists |-> FALSE]

\* What a handler run did: whether it called the client and the error of
\* that call, the messages it gave to the callback, in order, and how it
\* ended: ret is "true", "false" or "threw" (the promise rejected with err).
HandlerEnd(clientCalled, clientErr, callbacks, ret, err) ==
  [clientCalled |-> clientCalled, clientErr |-> clientErr, callbacks |-> callbacks,
   ret |-> ret, err |-> err]

\* no handler run yet
NoHandled ==
  [action |-> "none", missing |-> FALSE, available |-> TRUE, replies |-> <<"", "">>,
   end |-> HandlerEnd(FALSE, "", <<>>, "none", "")]

\* no second invocation
NoOther ==
  [pc |-> "none", issues |-> <<>>, idx |-> 0, availableLabelNames |-> {},
   labelsToAdd |-> <<>>, ci |-> 0, result |-> EmptyResult, outcome |-> NoOutcome,
   calls |-> <<>>, trace |-> <<>>, atRun |-> NoSnapshot]


(* ------------------------------ gateway -------------------------------- *)
\* one request sent to the issue tracker through octokit
Request(api, issue, name, color, description, labels) ==
  [api |-> api, issue |-> issue, name |-> name, color |-> color,
   description |-> description, labels |-> labels]

NoText == <<>>

\* mutation: the color is sent as given
StripHash_Keep(color) == color

\* color.replace(/^#/, '')
StripHash(color) == Color(FALSE, color.hex)

\* What a gateway operation did: the requests it sent and the error it threw
\* ("" when it returned normally).
Outcome(requests, err) == [requests |-> requests, err |-> err]

\* The tracker's reply to a request is "" (done) or an error. A request
\* about an unknown issue number is not found, one about a known number is
\* answered or fails.
LookupReplies(issueNumber) ==
  IF issueNumber \in RepoIssueNumbers THEN {""} \cup GatewayErrors ELSE {"NotFound"}

\* an issueNumber argument that was left out
Absent == -1

\* !issueNumber
Falsy(n) == n \in {0, Absent}

\* a labels argument: an array of names, or a value that is no array
ArrayOf(items) == [array |-> TRUE, items |-> items]
NotAnArray == [array |-> FALSE, items |-> <<>>]

\* a description argument that was left out
Omitted == <<"undefined">>

\* description || ''
DescriptionOrEmpty(d) == IF d = Omitted THEN NoText ELSE d

\* What a client operation did: the requests it sent, the tracker's reply to
\* each, the error it threw ("" when it returned) and the data it returned.
Ran(requests, replies, err, ret) ==
  [requests |-> requests, replies |-> replies, err |-> err, ret |-> ret]

\* mutation: only the issue number is validated
InvalidIssueLabels_NumberOnly(issueNumber, labels) == Falsy(issueNumber)

\* !issueNumber || !Array.isArray(labels)
InvalidIssueLabels(issueNumber, labels) == Falsy(issueNumber) \/ ~labels.array

\* mutation: a failed lookup is passed over and the labels are added
labelIssueRun_LookupIgnored(issueNumber, labels, getReply, addReply) ==
  LET get == Request("issues.get", issueNumber, "", Color(FALSE, ""), NoText, <<>>)
      add == Request("issues.addLabels", issueNumber, "", Color(FALSE, ""), NoText,
                     labels.items)
  IN  IF InvalidIssueLabels(issueNumber, labels)
      THEN Ran(<<>>, <<>>, "InvalidParameters", {})
      ELSE IF addReply # ""
      THEN Ran(<<get, add>>, <<getReply, addReply>>, addReply, {})
      ELSE Ran(<<get, add>>, <<getReply, "">>, "", Range(labels.items))

\* GitHubClient.labelIssue: validate, look the issue up, add the labels;
\* getReply and addReply are the tracker's replies to the two requests
labelIssueRun(issueNumber, labels, getReply, addReply) ==
  LET get == Request("issues.get", issueNumber, "", Color(FALSE, ""), NoText, <<>>)
      add == Request("issues.addLabels", issueNumber, "", Color(FALSE, ""), NoText,
                     labels.items)
  IN  IF InvalidIssueLabels(issueNumber, labels)
      THEN Ran(<<>>, <<>>, "InvalidParameters", {})
      ELSE IF getReply # ""
      THEN Ran(<<get>>, <<getReply>>, getReply, {})
      ELSE IF addReply # ""
      THEN Ran(<<get, add>>, <<"", addReply>>, addReply, {})
      ELSE Ran(<<get, add>>, <<"", "">>, "", issueLabels[issueNumber] \cup Range(labels.items))

\* labelIssue as the engine meets it
LabelIssueOutcomes(issueNumber, labels) ==
  {Outcome(r.requests, r.err) :
     r \in {labelIssueRun(issueNumber, labels, g, a) :
              g \in LookupReplies(issueNumber),
              a \in {""} \cup GatewayErrors}}

\* GitHubClient.setIssueLabels: validate, send one set request
setIssueLabelsRun(issueNumber, labels, reply) ==
  LET set == Request("issues.setLabels", issueNumber, "", Color(FALSE, ""), NoText,
                     labels.items)
  IN  IF InvalidIssueLabels(issueNumber, labels)
      THEN Ran(<<>>, <<>>, "InvalidParameters", {})
      ELSE IF reply # ""
      THEN Ran(<<set>>, <<reply>>, reply, {})
      ELSE Ran(<<set>>, <<"">>, "", Range(labels.items))

\* mutation: every label is removed, whether one was named or not
removeIssueLabelRun_AlwaysAll(issueNumber, label, reply) ==
  LET req == Request("issues.removeAllLabels", issueNumber, "", Color(FALSE, ""),
                     NoText, <<>>)
  IN  IF Falsy(issueNumber)
      THEN Ran(<<>>, <<>>, "InvalidParameter", {})
      ELSE IF reply # ""
      THEN Ran(<<req>>, <<reply>>, reply, {})
      ELSE Ran(<<req>>, <<"">>, "", {})

\* GitHubClient.removeIssueLabel: validate, remove the label given or all
removeIssueLabelRun(issueNumber, label, reply) ==
  LET req == IF label # ""
             THEN Request("issues.removeLabel", issueNumber, label, Color(FALSE, ""),
                          NoText, <<>>)
             ELSE Request("issues.removeAllLabels", issueNumber, "", Color(FALSE, ""),
                          NoText, <<>>)
  IN  IF Falsy(issueNumber)
      THEN Ran(<<>>, <<>>, "InvalidParameter", {})
      ELSE IF reply # ""
      THEN Ran(<<req>>, <<reply>>, reply, {})
      ELSE Ran(<<req>>, <<"">>, "",
               IF label # "" THEN issueLabels[issueNumber] \ {label} ELSE {})

\* the label data the tracker answers a create request with
LabelData(req) == [name |-> req.name, color |-> req.color, description |-> req.description]

\* GitHubClient.createLabel: validate, send one create request
createLabelRun(name, color, description, reply) ==
  LET req == Request("issues.createLabel", 0, name, StripHash(color),
                     DescriptionOrEmpty(description), <<>>)
  IN  IF name = "" \/ ~Truthy(color)
      THEN Ran(<<>>, <<>>, "InvalidParameters", {})
      ELSE IF reply # ""
      THEN Ran(<<req>>, <<reply>>, reply, {})
      ELSE Ran(<<req>>, <<"">>, "", {LabelData(req)})

\* createLabel as the engine meets it
CreateLabelOutcomes(name, color, description) ==
  {Outcome(r.requests, r.err) :
     r \in {createLabelRun(name, color, description, reply) :
              reply \in {""} \cup GatewayErrors}}

\* GitHubClient.getRepoLabels: one list request
GetRepoLabelsOutcomes ==
  LET req == Request("issues.listLabelsForRepo", 0, "", Color(FALSE, ""), NoText, <<>>)
  IN  {Outcome(<<req>>, e) : e \in GatewayErrors} \cup {Outcome(<<req>>, "")}

\* an Issue as the gateway returns it
Issue(n) ==
  [number |-> n, title |-> RepoIssueTitle(n), body |-> RepoIssueBody(n),
   labels |-> issueLabels[n]]

\* getRepoIssues(state): the issues in that state, in ascending number order
RECURSIVE IssuesFrom(_, _)
IssuesFrom(n, state) ==
  IF n > MaxIssues THEN <<>>
  ELSE IF state = "all" \/ RepoIssueState(n) = state
       THEN <<Issue(n)>> \o IssuesFrom(n + 1, state)
       ELSE IssuesFrom(n + 1, state)

GetRepoIssuesOutcomes ==
  LET req == Request("issues.listForRepo", 0, "", Color(FALSE, ""), NoText, <<>>)
  IN  {Outcome(<<req>>, e) : e \in GatewayErrors} \cup {Outcome(<<req>>, "")}

\* one gateway call of run(), as recorded in calls; known is the run's
\* known-label set when the call was made; ret is the set of label names a
\* successful getRepoLabels returned
Call(op, state, issue, name, color, description, labels, known, out, ret) ==
  [op |-> op, state |-> state, issue |-> issue, name |-> name, color |-> color,
   description |-> description, labels |-> labels, known |-> known,
   requests |-> out.requests, err |-> out.err, ret |-> ret]

(* ------------------------------- engine -------------------------------- *)
Init ==
  /\ rules = <<>>
  /\ \E overrides \in ConfigPartials : config = MergeConfig(DEFAULT_CONFIG, overrides)
  /\ repoLabels \in SUBSET LabelNames
  /\ issueLabels \in [RepoIssueNumbers -> {{}, {"bug"}}]
  /\ \A n \in RepoIssueNumbers : issueLabels[n] \subseteq repoLabels
  /\ pc = "idle"
  /\ runs = 0
  /\ issues = <<>>
  /\ idx = 0
  /\ availableLabelNames = {}
  /\ labelsToAdd = <<>>
  /\ ci = 0
  /\ result = EmptyResult
  /\ outcome = NoOutcome
  /\ calls = <<>>
  /\ trace = <<>>
  /\ prev = NoPrev
  /\ defaultConfig = DEFAULT_CONFIG
  /\ other = NoOther
  /\ atRun = NoSnapshot
  /\ direct = NoDirect
  /\ clone = NoClone
  /\ handled = NoHandled

Idle == pc \in {"idle", "done"}

\* the locals of a finished invocation are gone once the caller goes on
DropLocals ==
  /\ pc' = "idle"
  /\ issues' = <<>>
  /\ idx' = 0
  /\ availableLabelNames' = {}
  /\ labelsToAdd' = <<>>
  /\ ci' = 0
  /\ result' = EmptyResult
  /\ outcome' = NoOutcome
  /\ calls' = <<>>
  /\ trace' = <<>>
  /\ prev' = NoPrev

\* mutation: the overrides are assigned onto the default object itself
constructor_Assign(overrides) ==
  /\ Idle
  /\ rules' = <<>>
  /\ config' = MergeConfig(defaultConfig, overrides)
  /\ defaultConfig' = config'
  /\ DropLocals
  /\ UNCHANGED <<runs, gatewayVars, other, atRun, direct, clone, handled>>

\* new GitHubAutoLabeler(client, overrides): one more engine on the same
\* repository; the model goes on with the new engine
constructor(overrides) ==
  /\ Idle
  /\ rules' = <<>>
  /\ config' = MergeConfig(defaultConfig, overrides)
  /\ DropLocals
  /\ UNCHANGED <<runs, gatewayVars, frameVars>>

addRule(rule) ==
  /\ Idle
  /\ Len(rules) < MaxRules
  /\ rules' = Append(rules, rule)
  /\ DropLocals
  /\ UNCHANGED <<config, runs, frameVars, gatewayVars>>

addRules(rs) ==
  /\ Idle
  /\ Len(rules) + Len(rs) <= MaxRules
  /\ rules' = rules \o rs
  /\ DropLocals
  /\ UNCHANGED <<config, runs, frameVars, gatewayVars>>

setConfig(partial) ==
  /\ Idle
  /\ config' = MergeConfig(config, partial)
  /\ DropLocals
  /\ UNCHANGED <<rules, runs, frameVars, gatewayVars>>

\* mutation: a label added again moves to the end
RECURSIVE SetAddAll_MoveToEnd(_, _)
SetAddAll_MoveToEnd(acc, labels) ==
  IF labels = <<>> THEN acc
  ELSE SetAddAll_MoveToEnd(
         Append(SeqFilter(acc, Range(acc) \ {Head(labels)}), Head(labels)),
         Tail(labels))

\* labelsToAdd after the rule loop: the labels of every matching rule, in
\* first-insertion order (a JavaScript Set)
RECURSIVE SetAddAll(_, _)
SetAddAll(acc, labels) ==
  IF labels = <<>> THEN acc
  ELSE SetAddAll(IF Contains(acc, Head(labels)) THEN acc ELSE Append(acc, Head(labels)),
                 Tail(labels))

\* mutation: first match wins
RECURSIVE MatchRules_FirstMatch(_, _, _)
MatchRules_FirstMatch(rs, text, acc) ==
  IF rs = <<>> THEN acc
  ELSE IF PatternTest(Head(rs).pattern, text)
       THEN SetAddAll(acc, Head(rs).labels)
       ELSE MatchRules_FirstMatch(Tail(rs), text, acc)

\* mutation: a later matching rule overrides the earlier ones
RECURSIVE MatchRules_LastWins(_, _, _)
MatchRules_LastWins(rs, text, acc) ==
  IF rs = <<>> THEN acc
  ELSE MatchRules_LastWins(Tail(rs), text,
                           IF PatternTest(Head(rs).pattern, text)
                           THEN SetAddAll(<<>>, Head(rs).labels)
                           ELSE acc)

RECURSIVE MatchRules(_, _, _)
MatchRules(rs, text, acc) ==
  IF rs = <<>> THEN acc
  ELSE MatchRules(Tail(rs), text,
                  IF PatternTest(Head(rs).pattern, text)
                  THEN SetAddAll(acc, Head(rs).labels)
                  ELSE acc)

\* mutation: the candidates are applied unfiltered
ValidLabels_NoFilter(candidates, known) == candidates

\* Array.from(labelsToAdd).filter(label => availableLabelNames.has(label))
ValidLabels(candidates, known) == SeqFilter(candidates, known)

\* mutation: the outer catch throws an error of its own
Fail_Wrapped(e) ==
  /\ outcome' = Threw("AutoLabelError")
  /\ pc' = "done"

\* catch (error) { ...; throw error; }, and the throw before the try
Fail(e) ==
  /\ outcome' = Threw(e)
  /\ pc' = "done"

\* mutation: the empty rule list is not rejected
NoRules_Never(rs) == FALSE

\* if (this.rules.length === 0)
NoRules(rs) == Len(rs) = 0

\* mutation: the negation of the flag is lost
SkipIssue_WrongFlag(cfg, issue) == cfg.relabelExistingIssues /\ issue.labels # {}

\* mutation: labelled issues are skipped whatever the flag says
SkipIssue_Labelled(cfg, issue) == issue.labels # {}

\* mutation: labelled issues are never skipped
SkipIssue_Never(cfg, issue) == FALSE

\* !this.config.relabelExistingIssues && issue.labels && issue.labels.length > 0
SkipIssue(cfg, issue) == ~cfg.relabelExistingIssues /\ issue.labels # {}

\* mutation: missing labels are never created
ShouldCreate_Never(cfg) == FALSE

\* mutation: missing labels are created whatever the configuration
ShouldCreate_Always(cfg) == TRUE

\* if (this.config.createMissingLabels)
ShouldCreate(cfg) == cfg.createMissingLabels

\* mutation: the configured color is ignored
CreateColor_Fixed(cfg) == Color(FALSE, "0075ca")

\* this.config.defaultLabelColor || '0075ca'
CreateColor(cfg) ==
  IF Truthy(cfg.defaultLabelColor) THEN cfg.defaultLabelColor ELSE Color(FALSE, "0075ca")

\* `Auto-created label for ${label}`
CreateDescription(label) == <<"Auto-created label for ", label>>

\* mutation: the result object is a field of the engine, used again
FreshResult_Retained == result

\* const result: AutoLabelResult = { totalIssues: 0, ... }
FreshResult == EmptyResult

\* mutation: run() takes the rules out of the engine as it starts
EngineKept_RulesTaken == rules' = <<>> /\ UNCHANGED config

\* run() reads this.rules and this.config and assigns neither
EngineKept == UNCHANGED engineVars

\* run(), from its entry to the first await; track says whether the run
\* before is remembered in prev
Invoke(track) ==
  /\ runs < MaxRuns
  /\ runs' = runs + 1
  /\ prev' = IF track /\ pc = "done"
             THEN [valid |-> TRUE, outcome |-> outcome,
                   createFailed |-> \E i \in 1..Len(calls) :
                                      calls[i].op = "createLabel" /\ calls[i].err # ""]
             ELSE NoPrev
  /\ calls' = <<>>
  /\ trace' = <<>>
  /\ issues' = <<>>
  /\ idx' = 0
  /\ availableLabelNames' = {}
  /\ labelsToAdd' = <<>>
  /\ ci' = 0
  /\ result' = FreshResult
  /\ IF NoRules(rules)
     THEN Fail("NoRulesDefined")
     ELSE /\ pc' = "getRepoIssues"
          /\ outcome' = NoOutcome
  /\ EngineKept
  /\ UNCHANGED gatewayVars

\* run() invoked while no other invocation is in progress
Run(track) == Idle /\ Invoke(track)

RunInvoke == Run(FALSE) /\ UNCHANGED frameVars

RunAfter == Run(TRUE) /\ UNCHANGED frameVars

\* mutation: only the issues that carry no label are counted
TotalIssues_Unlabelled(fetched) ==
  Cardinality({i \in 1..Len(fetched) : fetched[i].labels = {}})

\* result.totalIssues = issues.length
TotalIssues(fetched) == Len(fetched)

\* mutation: the filter is always 'open'
FetchState_Open(cfg) == "open"

\* this.config.issueState, the argument of getRepoIssues
FetchState(cfg) == cfg.issueState

\* await this.client.getRepoIssues(this.config.issueState)
GetRepoIssues ==
  /\ pc = "getRepoIssues"
  /\ \E out \in GetRepoIssuesOutcomes :
       /\ calls' = Append(calls, Call("getRepoIssues", FetchState(config), 0, "",
                                      Color(FALSE, ""), NoText, <<>>,
                                      availableLabelNames, out, {}))
       /\ IF out.err # ""
          THEN /\ Fail(out.err)
               /\ UNCHANGED <<issues, result>>
          ELSE /\ issues' = IssuesFrom(1, FetchState(config))
               /\ result' = [result EXCEPT !.totalIssues = TotalIssues(issues')]
               /\ pc' = "getRepoLabels"
               /\ UNCHANGED outcome
  /\ UNCHANGED <<engineVars, gatewayVars, runs, frameVars, idx, availableLabelNames,
                 labelsToAdd, ci, trace, prev>>

\* mutation: a failing getRepoLabels counts as an empty label set
GetRepoLabels_Swallow ==
  /\ pc = "getRepoLabels"
  /\ \E out \in GetRepoLabelsOutcomes :
       /\ calls' = Append(calls, Call("getRepoLabels", "", 0, "", Color(FALSE, ""),
                                      NoText, <<>>, availableLabelNames, out,
                                      IF out.err = "" THEN repoLabels ELSE {}))
       /\ availableLabelNames' = IF out.err = "" THEN repoLabels ELSE {}
       /\ idx' = 1
       /\ pc' = "issueLoop"
       /\ UNCHANGED outcome
  /\ UNCHANGED <<engineVars, gatewayVars, runs, frameVars, issues, labelsToAdd, ci, result, trace,
                 prev>>

\* await this.client.getRepoLabels()
GetRepoLabels ==
  /\ pc = "getRepoLabels"
  /\ \E out \in GetRepoLabelsOutcomes :
       /\ calls' = Append(calls, Call("getRepoLabels", "", 0, "", Color(FALSE, ""),
                                      NoText, <<>>, availableLabelNames, out,
                                      IF out.err = "" THEN repoLabels ELSE {}))
       /\ IF out.err # ""
          THEN /\ Fail(out.err)
               /\ UNCHANGED <<availableLabelNames, idx>>
          ELSE /\ availableLabelNames' = repoLabels
               /\ idx' = 1
               /\ pc' = "issueLoop"
               /\ UNCHANGED outcome
  /\ UNCHANGED <<engineVars, gatewayVars, runs, frameVars, issues, labelsToAdd, ci, result, trace,
                 prev>>

\* mutation: the issues are walked from the last to the first
CurrentIssue_Reversed == issues[Len(issues) + 1 - idx]

\* for (const issue of issues)
CurrentIssue == issues[idx]

\* the head of the loop over issues: skip policy and rule evaluation
IssueLoop ==
  /\ pc = "issueLoop"
  /\ IF idx > Len(issues)
     THEN /\ outcome' = Returned(result)
          /\ pc' = "done"
          /\ UNCHANGED <<idx, labelsToAdd, ci>>
     ELSE IF SkipIssue(config, CurrentIssue)
     THEN /\ idx' = idx + 1
          /\ UNCHANGED <<pc, outcome, labelsToAdd, ci>>
     ELSE /\ labelsToAdd' = MatchRules(rules, IssueText(CurrentIssue), <<>>)
          /\ ci' = 1
          /\ pc' = IF ShouldCreate(config) THEN "createLoop" ELSE "apply"
          /\ UNCHANGED <<idx, outcome>>
  /\ UNCHANGED <<engineVars, gatewayVars, runs, frameVars, issues, availableLabelNames, result,
                 calls, trace, prev>>

\* mutation: every candidate is created, known or not
IsKnown_Never(label, known) == FALSE

\* availableLabelNames.has(label)
IsKnown(label, known) == label \in known

\* mutation: the known-label set is replaced by the created name
CreateLabelSucceeded_Reset(label) ==
  /\ repoLabels' = repoLabels \cup {label}
  /\ availableLabelNames' = {label}
  /\ result' = [result EXCEPT !.labelsCreated = @ + 1]
  /\ ci' = ci + 1
  /\ UNCHANGED <<pc, outcome>>

\* createLabel returned: availableLabelNames.add(label); result.labelsCreated++
CreateLabelSucceeded(label) ==
  /\ repoLabels' = repoLabels \cup {label}
  /\ availableLabelNames' = availableLabelNames \cup {label}
  /\ result' = [result EXCEPT !.labelsCreated = @ + 1]
  /\ ci' = ci + 1
  /\ UNCHANGED <<pc, outcome>>

\* mutation: no inner catch, the failure reaches the outer catch
CreateLabelFailed_Abort(label, e) ==
  /\ Fail(e)
  /\ UNCHANGED <<repoLabels, availableLabelNames, result, ci>>

\* mutation: the name is recorded as known before the call is awaited
CreateLabelFailed_AddAnyway(label, e) ==
  /\ availableLabelNames' = availableLabelNames \cup {label}
  /\ ci' = ci + 1
  /\ UNCHANGED <<repoLabels, result, pc, outcome>>

\* mutation: the loop tries the same label again
CreateLabelFailed_Retry(label, e) ==
  /\ ci' = ci
  /\ UNCHANGED <<repoLabels, availableLabelNames, result, pc, outcome>>

\* createLabel threw: the inner catch logs and the loop goes on
CreateLabelFailed(label, e) ==
  /\ ci' = ci + 1
  /\ UNCHANGED <<repoLabels, availableLabelNames, result, pc, outcome>>

\* one turn of the loop over Array.from(labelsToAdd)
CreateLoop ==
  /\ pc = "createLoop"
  /\ IF ci > Len(labelsToAdd)
     THEN /\ pc' = "apply"
          /\ UNCHANGED <<ci, availableLabelNames, result, calls, repoLabels, outcome>>
     ELSE IF IsKnown(labelsToAdd[ci], availableLabelNames)
     THEN /\ ci' = ci + 1
          /\ UNCHANGED <<pc, availableLabelNames, result, calls, repoLabels, outcome>>
     ELSE LET label == labelsToAdd[ci]
              color == CreateColor(config)
              description == CreateDescription(label)
          IN  \E out \in CreateLabelOutcomes(label, color, description) :
                /\ calls' = Append(calls, Call("createLabel", "", CurrentIssue.number,
                                               label, color, description, <<>>,
                                               availableLabelNames, out, {}))
                /\ IF out.err = ""
                   THEN CreateLabelSucceeded(label)
                   ELSE CreateLabelFailed(label, out.err)
  /\ UNCHANGED <<engineVars, issueLabels, runs, frameVars, issues, idx, labelsToAdd, trace, prev>>

\* mutation: the details record is pushed without counting the issue
LabelIssueSucceeded_NoCount(issue, validLabels) ==
  /\ issueLabels' = [issueLabels EXCEPT ![issue.number] = @ \cup Range(validLabels)]
  /\ result' = [result EXCEPT
                  !.details = Append(@, [issueNumber |-> issue.number,
                                         title |-> issue.title,
                                         appliedLabels |-> validLabels])]
  /\ idx' = idx + 1
  /\ pc' = "issueLoop"
  /\ UNCHANGED outcome

\* mutation: the details record is put in front of the earlier ones
LabelIssueSucceeded_Unshift(issue, validLabels) ==
  /\ issueLabels' = [issueLabels EXCEPT ![issue.number] = @ \cup Range(validLabels)]
  /\ result' = [result EXCEPT
                  !.labeledIssues = @ + 1,
                  !.details = <<[issueNumber |-> issue.number,
                                 title |-> issue.title,
                                 appliedLabels |-> validLabels]>> \o @]
  /\ idx' = idx + 1
  /\ pc' = "issueLoop"
  /\ UNCHANGED outcome

\* mutation: the valid labels are taken from the issue
LabelIssueSucceeded_Remove(issue, validLabels) ==
  /\ issueLabels' = [issueLabels EXCEPT ![issue.number] = @ \ Range(validLabels)]
  /\ result' = [result EXCEPT
                  !.labeledIssues = @ + 1,
                  !.details = Append(@, [issueNumber |-> issue.number,
                                         title |-> issue.title,
                                         appliedLabels |-> validLabels])]
  /\ idx' = idx + 1
  /\ pc' = "issueLoop"
  /\ UNCHANGED outcome

\* labelIssue returned: result.labeledIssues++; result.details.push(...)
LabelIssueSucceeded(issue, validLabels) ==
  /\ issueLabels' = [issueLabels EXCEPT ![issue.number] = @ \cup Range(validLabels)]
  /\ result' = [result EXCEPT
                  !.labeledIssues = @ + 1,
                  !.details = Append(@, [issueNumber |-> issue.number,
                                         title |-> issue.title,
                                         appliedLabels |-> validLabels])]
  /\ idx' = idx + 1
  /\ pc' = "issueLoop"
  /\ UNCHANGED outcome

\* mutation: the failure is swallowed and the loop goes on
LabelIssueFailed_Swallow(e) ==
  /\ idx' = idx + 1
  /\ pc' = "issueLoop"
  /\ UNCHANGED <<issueLabels, result, outcome>>

\* mutation: the catch takes back the labels the run put on earlier issues
LabelIssueFailed_Rollback(e) ==
  /\ Fail(e)
  /\ issueLabels' =
       [n \in DOMAIN issueLabels |->
          issueLabels[n] \ UNION {Range(calls[i].labels) :
                                    i \in {h \in 1..Len(calls) :
                                             /\ calls[h].op = "labelIssue"
                                             /\ calls[h].err = ""
                                             /\ calls[h].issue = n}}]
  /\ UNCHANGED <<result, idx>>

\* labelIssue threw: the outer catch logs and rethrows
LabelIssueFailed(e) ==
  /\ Fail(e)
  /\ UNCHANGED <<issueLabels, result, idx>>

\* mutation: labelIssue is called whatever is left
HasLabels_Always(validLabels) == TRUE

\* if (validLabels.length > 0)
HasLabels(validLabels) == Len(validLabels) > 0

\* filter the candidates and apply what is left
Apply ==
  /\ pc = "apply"
  /\ trace' = Append(trace, [issue |-> CurrentIssue.number, known |-> availableLabelNames])
  /\ LET validLabels == ValidLabels(labelsToAdd, availableLabelNames)
     IN  IF HasLabels(validLabels)
         THEN \E out \in LabelIssueOutcomes(CurrentIssue.number, ArrayOf(validLabels)) :
                /\ calls' = Append(calls, Call("labelIssue", "", CurrentIssue.number, "",
                                               Color(FALSE, ""), NoText, validLabels,
                                               availableLabelNames, out, {}))
                /\ IF out.err = ""
                   THEN LabelIssueSucceeded(CurrentIssue, validLabels)
                   ELSE LabelIssueFailed(out.err)
         ELSE /\ idx' = idx + 1
              /\ pc' = "issueLoop"
              /\ UNCHANGED <<issueLabels, result, outcome, calls>>
  /\ UNCHANGED <<engineVars, repoLabels, runs, frameVars, issues, availableLabelNames, labelsToAdd, ci,
                 prev>>

Next ==
  \/ \E rule \in RuleInputs : addRule(rule)
  \/ \E r1, r2 \in RuleInputs : addRules(<<r1, r2>>)
  \/ \E partial \in ConfigPartials : setConfig(partial)
  \/ RunInvoke
  \/ GetRepoIssues
  \/ GetRepoLabels
  \/ IssueLoop
  \/ CreateLoop
  \/ Apply

Spec == Init /\ [][Next]_vars

\* the same program, each run remembering the run it directly follows
NextSucc ==
  \/ \E rule \in RuleInputs : addRule(rule)
  \/ \E r1, r2 \in RuleInputs : addRules(<<r1, r2>>)
  \/ \E partial \in ConfigPartials : setConfig(partial)
  \/ RunAfter
  \/ GetRepoIssues
  \/ GetRepoLabels
  \/ IssueLoop
  \/ CreateLoop
  \/ Apply

SpecSucc == Init /\ [][NextSucc]_vars

(* --------- the client called by a caller other than the engine --------- *)
\* the arguments such a caller gives
IssueNumberArgs == {Absent, 0} \cup RepoIssueNumbers \cup {MaxIssues + 1}
LabelsArgs == {NotAnArray, ArrayOf(<<>>), ArrayOf(<<"bug">>), ArrayOf(<<"security", "bug">>)}
LabelArgs == {"", "bug"}
NameArgs == {"", "security"}
DescriptionArgs == {Omitted, NoText, CreateDescription("security")}

\* what the engine holds and the locals of its run() stay as they are
ClientFrame ==
  UNCHANGED <<engineVars, pc, runs, issues, idx, availableLabelNames, labelsToAdd, ci,
              result, outcome, calls, trace, prev, defaultConfig, other, atRun, clone,
              handled>>

\* the tracker creates the names it does not have when they are put on an
\* issue
labelIssue(issueNumber, labels) ==
  /\ \E getReply \in LookupReplies(issueNumber) :
       \E addReply \in {""} \cup GatewayErrors :
         LET ran == labelIssueRun(issueNumber, labels, getReply, addReply)
         IN  /\ direct' = Direct("labelIssue", issueNumber, labels, "", Color(FALSE, ""),
                                 NoText, ran)
             /\ IF ran.err = ""
                THEN /\ issueLabels' = [issueLabels EXCEPT
                                          ![issueNumber] = @ \cup Range(labels.items)]
                     /\ repoLabels' = repoLabels \cup Range(labels.items)
                ELSE UNCHANGED gatewayVars
  /\ ClientFrame

setIssueLabels(issueNumber, labels) ==
  /\ \E reply \in LookupReplies(issueNumber) :
       LET ran == setIssueLabelsRun(issueNumber, labels, reply)
       IN  /\ direct' = Direct("setIssueLabels", issueNumber, labels, "", Color(FALSE, ""),
                               NoText, ran)
           /\ IF ran.err = ""
              THEN /\ issueLabels' = [issueLabels EXCEPT ![issueNumber] = Range(labels.items)]
                   /\ repoLabels' = repoLabels \cup Range(labels.items)
              ELSE UNCHANGED gatewayVars
  /\ ClientFrame

removeIssueLabel(issueNumber, label) ==
  /\ \E reply \in LookupReplies(issueNumber) :
       LET ran == removeIssueLabelRun(issueNumber, label, reply)
       IN  /\ direct' = Direct("removeIssueLabel", issueNumber, ArrayOf(<<>>), label,
                               Color(FALSE, ""), NoText, ran)
           /\ IF ran.err = ""
              THEN issueLabels' = [issueLabels EXCEPT ![issueNumber] = ran.ret]
              ELSE UNCHANGED issueLabels
  /\ UNCHANGED repoLabels
  /\ ClientFrame

createLabel(name, color, description) ==
  /\ \E reply \in {""} \cup GatewayErrors :
       LET ran == createLabelRun(name, color, description, reply)
       IN  /\ direct' = Direct("createLabel", 0, ArrayOf(<<>>), name, color, description, ran)
           /\ repoLabels' = IF ran.err = "" THEN repoLabels \cup {name} ELSE repoLabels
  /\ UNCHANGED issueLabels
  /\ ClientFrame

NextGateway ==
  \/ \E n \in IssueNumberArgs : \E labels \in LabelsArgs : labelIssue(n, labels)
  \/ \E n \in IssueNumberArgs : \E labels \in LabelsArgs : setIssueLabels(n, labels)
  \/ \E n \in IssueNumberArgs : \E label \in LabelArgs : removeIssueLabel(n, label)
  \/ \E name \in NameArgs : \E color \in Colors : \E description \in DescriptionArgs :
       createLabel(name, color, description)

SpecGateway == Init /\ [][NextGateway]_vars

(* ---------------------- the label action handlers ---------------------- *)
\* What the callback does when the handler awaits it: "" (it resolves) or an
\* error (it rejects).  A handler awaits it once in its try block and, when
\* the try block threw, once in its catch block; replies[1] answers the first
\* call of a run and replies[2] the second.
CallbackReplies ==
  {<<"", "">>, <<"CallbackError", "">>, <<"CallbackError", "CallbackError">>}

\* catch (error) { ...; await callback(`I couldn't ...`); return false; }
\* said is what the callback was given before, reply what it does now
HandlerCatch(said, clientCalled, clientErr, reply) ==
  IF reply = ""
  THEN HandlerEnd(clientCalled, clientErr, Append(said, "failure"), "false", "")
  ELSE HandlerEnd(clientCalled, clientErr, Append(said, "failure"), "threw", reply)

\* the body all five handlers share: test the parameters, get the client,
\* call it, report; missing is the outcome of the parameter test, available
\* whether runtime.getClient("github") gives a client, clientErr the error
\* of the client call ("" when it returned)
handlerRun(missing, available, clientErr, replies) ==
  IF missing
  THEN IF replies[1] = ""
       THEN HandlerEnd(FALSE, "", <<"missing">>, "false", "")
       ELSE HandlerCatch(<<"missing">>, FALSE, "", replies[2])
  ELSE IF ~available
  THEN HandlerCatch(<<>>, FALSE, "", replies[1])
  ELSE IF clientErr # ""
  THEN HandlerCatch(<<>>, TRUE, clientErr, replies[1])
  ELSE IF replies[1] = ""
  THEN HandlerEnd(TRUE, "", <<"success">>, "true", "")
  ELSE HandlerCatch(<<"success">>, TRUE, "", replies[2])

Handled(action, missing, available, clientErr, replies) ==
  [action |-> action, missing |-> missing, available |-> available, replies |-> replies,
   end |-> handlerRun(missing, available, clientErr, replies)]

\* the engine, its run() and the other callers stay as they are
HandlerFrame ==
  UNCHANGED <<engineVars, pc, runs, issues, idx, availableLabelNames, labelsToAdd, ci,
              result, outcome, calls, trace, prev, defaultConfig, other, atRun, direct,
              clone>>

\* createGitHubLabel.handler
createGitHubLabel(name, color, description) ==
  /\ \E available \in BOOLEAN : \E replies \in CallbackReplies :
       \E reply \in {""} \cup GatewayErrors :
         LET missing == name = "" \/ ~Truthy(color)
             called == ~missing /\ available
             ran == createLabelRun(name, color, description, reply)
         IN  /\ handled' = Handled("createGitHubLabel", missing, available,
                                   IF called THEN ran.err ELSE "", replies)
             /\ repoLabels' = IF called /\ ran.err = ""
                              THEN repoLabels \cup {name} ELSE repoLabels
  /\ UNCHANGED issueLabels
  /\ HandlerFrame

\* labelGitHubIssue.handler
labelGitHubIssue(issueNumber, labels) ==
  /\ \E available \in BOOLEAN : \E replies \in CallbackReplies :
       \E getReply \in LookupReplies(issueNumber) : \E addReply \in {""} \cup GatewayErrors :
         LET missing == Falsy(issueNumber) \/ ~labels.array \/ Len(labels.items) = 0
             called == ~missing /\ available
             ran == labelIssueRun(issueNumber, labels, getReply, addReply)
         IN  /\ handled' = Handled("labelGitHubIssue", missing, available,
                                   IF called THEN ran.err ELSE "", replies)
             /\ IF called /\ ran.err = ""
                THEN /\ issueLabels' = [issueLabels EXCEPT
                                          ![issueNumber] = @ \cup Range(labels.items)]
                     /\ repoLabels' = repoLabels \cup Range(labels.items)
                ELSE UNCHANGED gatewayVars
  /\ HandlerFrame

\* setGitHubIssueLabels.handler
setGitHubIssueLabels(issueNumber, labels) ==
  /\ \E available \in BOOLEAN : \E replies \in CallbackReplies :
       \E reply \in LookupReplies(issueNumber) :
         LET missing == Falsy(issueNumber) \/ ~labels.array
             called == ~missing /\ available
             ran == setIssueLabelsRun(issueNumber, labels, reply)
         IN  /\ handled' = Handled("setGitHubIssueLabels", missing, available,
                                   IF called THEN ran.err ELSE "", replies)
             /\ IF called /\ ran.err = ""
                THEN /\ issueLabels' = [issueLabels EXCEPT
                                          ![issueNumber] = Range(labels.items)]
                     /\ repoLabels' = repoLabels \cup Range(labels.items)
                ELSE UNCHANGED gatewayVars
  /\ HandlerFrame

\* removeGitHubIssueLabel.handler
removeGitHubIssueLabel(issueNumber, label) ==
  /\ \E available \in BOOLEAN : \E replies \in CallbackReplies :
       \E reply \in LookupReplies(issueNumber) :
         LET missing == Falsy(issueNumber)
             called == ~missing /\ available
             ran == removeIssueLabelRun(issueNumber, label, reply)
         IN  /\ handled' = Handled("removeGitHubIssueLabel", missing, available,
                                   IF called THEN ran.err ELSE "", replies)
             /\ IF called /\ ran.err = ""
                THEN issueLabels' = [issueLabels EXCEPT ![issueNumber] = ran.ret]
                ELSE UNCHANGED issueLabels
  /\ UNCHANGED repoLabels
  /\ HandlerFrame

\* getGitHubRepoLabels.handler
getGitHubRepoLabels ==
  /\ \E available \in BOOLEAN : \E replies \in CallbackReplies :
       \E out \in GetRepoLabelsOutcomes :
         handled' = Handled("getGitHubRepoLabels", FALSE, available,
                            IF available THEN out.err ELSE "", replies)
  /\ UNCHANGED gatewayVars
  /\ HandlerFrame

NextActions ==
  \/ \E name \in NameArgs : \E color \in Colors : \E description \in DescriptionArgs :
       createGitHubLabel(name, color, description)
  \/ \E n \in IssueNumberArgs : \E labels \in LabelsArgs : labelGitHubIssue(n, labels)
  \/ \E n \in IssueNumberArgs : \E labels \in LabelsArgs : setGitHubIssueLabels(n, labels)
  \/ \E n \in IssueNumberArgs : \E label \in LabelArgs : removeGitHubIssueLabel(n, label)
  \/ getGitHubRepoLabels

SpecActions == Init /\ [][NextActions]_vars

(* ------------------- GitHubClient.cloneRepository ------------------- *)
\* const maxRetries = 3
maxRetries == 3

\* what git.clone can do
CloneResults == {"ok", "failed"}

\* mutation: the last failure is not turned into an error
Exhausted_Never(retries) == FALSE

\* if (retries === maxRetries)
Exhausted(retries) == retries = maxRetries

\* initialize: if (!existsSync(this.repoPath)) await this.cloneRepository()
cloneRepository ==
  /\ clone.pc \in {"idle", "done"}
  /\ ~clone.exists
  /\ clone' = [NoClone EXCEPT !.pc = "loop"]
  /\ UNCHANGED <<engineVars, gatewayVars, pc, runs, issues, idx, availableLabelNames,
                 labelsToAdd, ci, result, outcome, calls, trace, prev, defaultConfig, other,
                 atRun, direct, handled>>

\* one turn of while (retries < maxRetries): an attempt and what follows
\* it, or the end of the loop
CloneAttempt ==
  /\ clone.pc = "loop"
  /\ IF ~(clone.retries < maxRetries)
     THEN clone' = [clone EXCEPT !.pc = "done", !.outcome = "returned"]
     ELSE \E r \in CloneResults :
            IF r = "ok"
            THEN clone' = [clone EXCEPT !.attempts = Append(@, r), !.pc = "done",
                                        !.outcome = "returned", !.exists = TRUE]
            ELSE IF Exhausted(clone.retries + 1)
            THEN clone' = [clone EXCEPT !.attempts = Append(@, r), !.retries = @ + 1,
                                        !.pc = "done", !.outcome = "threw",
                                        !.error = "UnableToClone"]
            ELSE clone' = [clone EXCEPT !.attempts = Append(@, r), !.retries = @ + 1]
  /\ UNCHANGED <<engineVars, gatewayVars, pc, runs, issues, idx, availableLabelNames,
                 labelsToAdd, ci, result, outcome, calls, trace, prev, defaultConfig, other,
                 atRun, direct, handled>>

NextClone == cloneRepository \/ CloneAttempt

\* an awaited git.clone settles
CloneFairness == WF_vars(CloneAttempt)

SpecClone == Init /\ [][NextClone]_vars /\ CloneFairness

(* ---- calls made on the engine while a run() is suspended at an await ---- *)
\* the invocation in progress has just come back from an awaited gateway
\* call: what ran while it was suspended has run by now
Suspended ==
  \/ pc = "getRepoLabels"
  \/ pc = "issueLoop" /\ idx = 1
  \/ /\ pc = "issueLoop"
     /\ idx > 1
     /\ calls[Len(calls)].op = "labelIssue"
     /\ calls[Len(calls)].issue = issues[idx - 1].number
  \/ /\ pc = "createLoop"
     /\ ci > 1
     /\ calls[Len(calls)].op = "createLabel"
     /\ calls[Len(calls)].issue = CurrentIssue.number
     /\ calls[Len(calls)].name = labelsToAdd[ci - 1]

\* this.rules and this.config at the entry of run()
Snapshot == [valid |-> TRUE, rules |-> rules, config |-> config]

\* the locals of the invocation in progress
Locals ==
  [pc |-> pc, issues |-> issues, idx |-> idx,
   availableLabelNames |-> availableLabelNames, labelsToAdd |-> labelsToAdd,
   ci |-> ci, result |-> result, outcome |-> outcome, calls |-> calls,
   trace |-> trace, atRun |-> atRun]

RunAsync ==
  /\ Run(FALSE)
  /\ atRun' = Snapshot
  /\ UNCHANGED <<defaultConfig, other, direct, clone, handled>>

\* addRule called while the run is suspended
addRuleDuring(rule) ==
  /\ Suspended
  /\ Len(rules) < MaxRules
  /\ rules' = Append(rules, rule)
  /\ UNCHANGED <<config, gatewayVars, pc, runs, issues, idx, availableLabelNames,
                 labelsToAdd, ci, result, outcome, calls, trace, prev, frameVars>>

\* the partials given to setConfig while a run is suspended
DuringPartials == {[issueState |-> st] : st \in IssueStates}

\* setConfig called while the run is suspended
setConfigDuring(partial) ==
  /\ Suspended
  /\ config' = MergeConfig(config, partial)
  /\ UNCHANGED <<rules, gatewayVars, pc, runs, issues, idx, availableLabelNames,
                 labelsToAdd, ci, result, outcome, calls, trace, prev, frameVars>>

\* run() called a second time while the first invocation is suspended
RunDuring ==
  /\ Suspended
  /\ other = NoOther
  /\ other' = Locals
  /\ Invoke(FALSE)
  /\ atRun' = Snapshot
  /\ UNCHANGED <<defaultConfig, direct, clone, handled>>

\* mutation: the known-label set is a field of the engine, shared by the
\* invocations
Resume_SharedCache ==
  /\ other.pc \notin {"none", "done"}
  /\ Suspended \/ pc = "done"
  /\ other' = Locals
  /\ pc' = other.pc
  /\ issues' = other.issues
  /\ idx' = other.idx
  /\ availableLabelNames' = availableLabelNames
  /\ labelsToAdd' = other.labelsToAdd
  /\ ci' = other.ci
  /\ result' = other.result
  /\ outcome' = other.outcome
  /\ calls' = other.calls
  /\ trace' = other.trace
  /\ atRun' = other.atRun
  /\ UNCHANGED <<engineVars, gatewayVars, runs, prev, defaultConfig, direct, clone, handled>>

\* the other invocation goes on from its await, each invocation with its
\* own locals
Resume ==
  /\ other.pc \notin {"none", "done"}
  /\ Suspended \/ pc = "done"
  /\ other' = Locals
  /\ pc' = other.pc
  /\ issues' = other.issues
  /\ idx' = other.idx
  /\ availableLabelNames' = other.availableLabelNames
  /\ labelsToAdd' = other.labelsToAdd
  /\ ci' = other.ci
  /\ result' = other.result
  /\ outcome' = other.outcome
  /\ calls' = other.calls
  /\ trace' = other.trace
  /\ atRun' = other.atRun
  /\ UNCHANGED <<engineVars, gatewayVars, runs, prev, defaultConfig, direct, clone, handled>>

\* the program with addRule and setConfig called while a run() is
\* suspended; the rules and the configuration are set up before the first run
NextAsync ==
  \/ runs = 0 /\ \E rule \in RuleInputs : addRule(rule)
  \/ runs = 0 /\ \E partial \in ConfigPartials : setConfig(partial)
  \/ RunAsync
  \/ GetRepoIssues
  \/ GetRepoLabels
  \/ IssueLoop
  \/ CreateLoop
  \/ Apply
  \/ \E rule \in RuleInputs : addRuleDuring(rule)
  \/ \E partial \in DuringPartials : setConfigDuring(partial)

SpecAsync == Init /\ [][NextAsync]_vars

\* the program with run() called again while a run() is suspended, the two
\* invocations going on in turns
NextOverlap ==
  \/ runs = 0 /\ \E rule \in RuleInputs : addRule(rule)
  \/ RunAsync
  \/ GetRepoIssues
  \/ GetRepoLabels
  \/ IssueLoop
  \/ CreateLoop
  \/ Apply
  \/ RunDuring
  \/ Resume

SpecOverlap == Init /\ [][NextOverlap]_vars

\* the next step of the run() in progress; pc leaves one of them possible
RunStep == GetRepoIssues \/ GetRepoLabels \/ IssueLoop \/ CreateLoop \/ Apply

\* every awaited gateway call settles and the code between two awaits runs
\* on: a step of run() that can be taken is taken
RunFairness == WF_vars(RunStep)

\* the engine is constructed and given its rules, then run() is invoked
\* time after time
NextLive ==
  \/ runs = 0 /\ \E rule \in RuleInputs : addRule(rule)
  \/ RunInvoke
  \/ GetRepoIssues
  \/ GetRepoLabels
  \/ IssueLoop
  \/ CreateLoop
  \/ Apply

SpecLive == Init /\ [][NextLive]_vars /\ RunFairness

\* the same program with further engines constructed
NextEngines ==
  \/ Next
  \/ \E overrides \in ConfigPartials : constructor(overrides)

SpecEngines == Init /\ [][NextEngines]_vars

(* ------------------------- checked properties -------------------------- *)
\* a run() invocation is in progress or has just ended
InRun == pc # "idle"

LastCall == calls[Len(calls)]

\* C1: run() on an engine with no rule fails with the no-rules error before
\* any gateway call, whatever the configuration and the repository.
C1_NoRulesFailsBeforeGateway ==
  (InRun /\ Len(rules) = 0) =>
    /\ pc = "done"
    /\ outcome = Threw("NoRulesDefined")
    /\ calls = <<>>

C1_Witness ==
  /\ pc = "done"
  /\ Len(rules) = 0
  /\ outcome.error = "NoRulesDefined"
  /\ config.createMissingLabels
  /\ repoLabels # {}

\* C2: a failing labelIssue is the last gateway call of the run: the run
\* throws that error, returns no result, and the failing issue has no details
\* record.
C2_ApplyFailureAborts ==
  \A i \in 1..Len(calls) :
    (calls[i].op = "labelIssue" /\ calls[i].err # "") =>
      /\ i = Len(calls)
      /\ pc = "done"
      /\ outcome = Threw(calls[i].err)
      /\ \A k \in 1..Len(result.details) :
           result.details[k].issueNumber # calls[i].issue

C2_Witness ==
  /\ pc = "done"
  /\ outcome.kind = "threw"
  /\ Len(calls) > 0
  /\ LastCall.op = "labelIssue"
  /\ LastCall.err # ""
  /\ idx < Len(issues)
  /\ \E k \in (idx + 1)..Len(issues) :
       \E r \in Range(rules) : PatternTest(r.pattern, IssueText(issues[k]))

(* helpers of the properties below *)
IsCall(i, op) == calls[i].op = op

IsOkCall(i, op) == calls[i].op = op /\ calls[i].err = ""

\* the fetched issue with number n
FetchedIssue(n) == CHOOSE r \in Range(issues) : r.number = n

\* the issue was not skipped by the relabelExistingIssues policy
NotSkipped(issue) == config.relabelExistingIssues \/ issue.labels = {}

\* the labels proposed by the rules that match issue n
MatchingRules(n) ==
  {i \in 1..Len(rules) : PatternTest(rules[i].pattern, IssueText(FetchedIssue(n)))}

CandidateSet(n) == UNION {Range(rules[i].labels) : i \in MatchingRules(n)}

\* the label names the run fetched at its start
FetchedLabelNames ==
  UNION {calls[i].ret : i \in {j \in 1..Len(calls) : IsOkCall(j, "getRepoLabels")}}

\* the names whose creation succeeded before call j
CreatedBefore(j) == {calls[i].name : i \in {h \in 1..(j - 1) : IsOkCall(h, "createLabel")}}

\* the known-label set right after call i
KnownAfter(i) == IF i < Len(calls) THEN calls[i + 1].known ELSE availableLabelNames

\* C3: a failing createLabel leaves the known-label set and labelsCreated
\* alone and does not end the run; the failed name is in no label list of that
\* issue; and a run that returned has handled every candidate of every
\* non-skipped issue (known at its filter, or a create attempt that failed).
C3_CreateFailureTolerated ==
  /\ \A i \in 1..Len(calls) :
       (IsCall(i, "createLabel") /\ calls[i].err # "") =>
         /\ KnownAfter(i) = calls[i].known
         /\ calls[i].name \notin KnownAfter(i)
         /\ i = Len(calls) => outcome.kind # "threw"
         /\ \A j \in 1..Len(calls) :
              (IsCall(j, "labelIssue") /\ calls[j].issue = calls[i].issue) =>
                ~Contains(calls[j].labels, calls[i].name)
         /\ \A k \in 1..Len(result.details) :
              result.details[k].issueNumber = calls[i].issue =>
                ~Contains(result.details[k].appliedLabels, calls[i].name)
  /\ result.labelsCreated = Cardinality({i \in 1..Len(calls) : IsOkCall(i, "createLabel")})
  /\ (outcome.kind = "returned" /\ config.createMissingLabels) =>
       \A k \in 1..Len(issues) :
         NotSkipped(issues[k]) =>
           /\ \E t \in 1..Len(trace) : trace[t].issue = issues[k].number
           /\ \A x \in CandidateSet(issues[k].number) :
                \/ \E t \in 1..Len(trace) :
                     trace[t].issue = issues[k].number /\ x \in trace[t].known
                \/ \E i \in 1..Len(calls) :
                     /\ IsCall(i, "createLabel")
                     /\ calls[i].err # ""
                     /\ calls[i].issue = issues[k].number
                     /\ calls[i].name = x

C3_Witness ==
  /\ outcome.kind = "returned"
  /\ config.createMissingLabels
  /\ \E i, j, h \in 1..Len(calls) :
       /\ i < j /\ j < h
       /\ IsCall(i, "createLabel") /\ calls[i].err # ""
       /\ IsOkCall(j, "createLabel") /\ calls[j].issue = calls[i].issue
       /\ IsOkCall(h, "labelIssue") /\ calls[h].issue = calls[i].issue
  /\ \E i \in 1..Len(calls), k \in 1..Len(result.details) :
       /\ IsCall(i, "createLabel") /\ calls[i].err # ""
       /\ result.details[k].issueNumber > calls[i].issue

\* C4: in the result of a run, details has labeledIssues records, and each
\* record's labels were in the known-label set when its issue was labelled,
\* that set being the fetched names plus the names created before.
C4_DetailsInvariant ==
  /\ InRun =>
       /\ Len(result.details) = result.labeledIssues
       /\ \A k \in 1..Len(result.details) :
            \E j \in 1..Len(calls), t \in 1..Len(trace) :
              /\ IsOkCall(j, "labelIssue")
              /\ calls[j].issue = result.details[k].issueNumber
              /\ trace[t].issue = result.details[k].issueNumber
              /\ Range(result.details[k].appliedLabels) \subseteq trace[t].known
              /\ trace[t].known = calls[j].known
              /\ trace[t].known = FetchedLabelNames \cup CreatedBefore(j)
  /\ outcome.kind = "returned" => outcome.value = result

C4_Witness ==
  /\ outcome.kind = "returned"
  /\ Len(outcome.value.details) >= 2
  /\ outcome.value.labelsCreated >= 1
  /\ \E k \in 1..Len(outcome.value.details) :
       ~(Range(outcome.value.details[k].appliedLabels) \subseteq FetchedLabelNames)

\* C5: every applied label of a returned result is a label of the repository
\* when the run ends: it was fetched or its creation succeeded in the run.
C5_AppliedLabelsExist ==
  outcome.kind = "returned" =>
    \A k \in 1..Len(outcome.value.details) :
      \A x \in Range(outcome.value.details[k].appliedLabels) :
        /\ x \in repoLabels
        /\ \/ x \in FetchedLabelNames
           \/ \E i \in 1..Len(calls) : IsOkCall(i, "createLabel") /\ calls[i].name = x

C5_Witness ==
  /\ outcome.kind = "returned"
  /\ \E k \in 1..Len(outcome.value.details) :
       \E x, y \in Range(outcome.value.details[k].appliedLabels) :
         x \in FetchedLabelNames /\ y \notin FetchedLabelNames
  /\ \E i \in 1..Len(calls) : IsCall(i, "createLabel") /\ calls[i].err # ""

\* the parts of C6 that do not depend on the color
CreateThenApply ==
  /\ \A i \in 1..Len(calls) :
       IsCall(i, "createLabel") =>
         /\ calls[i].name \notin calls[i].known
         /\ calls[i].description = <<"Auto-created label for ", calls[i].name>>
         /\ IsOkCall(i, "createLabel") => calls[i].name \in repoLabels
  /\ \A j \in 1..Len(calls) :
       IsCall(j, "labelIssue") =>
         \A x \in Range(calls[j].labels) :
           x \notin FetchedLabelNames =>
             \E i \in 1..(j - 1) : IsOkCall(i, "createLabel") /\ calls[i].name = x
  /\ result.labelsCreated =
       Cardinality({calls[i].name : i \in {h \in 1..Len(calls) : IsOkCall(h, "createLabel")}})
  /\ \A i, j \in 1..Len(calls) :
       (IsOkCall(i, "createLabel") /\ IsOkCall(j, "createLabel")
          /\ calls[i].name = calls[j].name) => i = j
  /\ outcome.kind = "returned" => outcome.value.labelsCreated = result.labelsCreated

\* C6 as stated: with createMissingLabels, every createLabel call carries the
\* configured defaultLabelColor and the generated description, a label absent
\* from the fetched set is applied only after its creation succeeded, and
\* labelsCreated is the number of distinct names created.
C6_Original ==
  (InRun /\ config.createMissingLabels) =>
    /\ CreateThenApply
    /\ \A i \in 1..Len(calls) :
         IsCall(i, "createLabel") => calls[i].color = config.defaultLabelColor

\* C6 (amended): as C6, the color of every createLabel call being the
\* configured defaultLabelColor when that is a non-empty string and "0075ca"
\* when it is empty.
C6_CreateThenApply ==
  (InRun /\ config.createMissingLabels) =>
    /\ CreateThenApply
    /\ \A i \in 1..Len(calls) :
         IsCall(i, "createLabel") =>
           /\ config.defaultLabelColor # Color(FALSE, "") =>
                calls[i].color = config.defaultLabelColor
           /\ config.defaultLabelColor = Color(FALSE, "") =>
                calls[i].color = Color(FALSE, "0075ca")

C6_Witness ==
  /\ outcome.kind = "returned"
  /\ config.createMissingLabels
  /\ config.defaultLabelColor = Color(TRUE, "ff0000")
  /\ outcome.value.labelsCreated = 2
  /\ \E j \in 1..Len(calls) :
       IsOkCall(j, "labelIssue") /\ ~(Range(calls[j].labels) \subseteq FetchedLabelNames)

\* C7: without createMissingLabels a run makes no createLabel call, counts no
\* created label, leaves the repository's labels as fetched, and applies only
\* fetched names.
C7_NoCreationWhenDisabled ==
  (InRun /\ ~config.createMissingLabels) =>
    /\ \A i \in 1..Len(calls) : ~IsCall(i, "createLabel")
    /\ result.labelsCreated = 0
    /\ outcome.value.labelsCreated = 0
    /\ (\E i \in 1..Len(calls) : IsOkCall(i, "getRepoLabels")) => repoLabels = FetchedLabelNames
    /\ \A j \in 1..Len(calls) :
         IsCall(j, "labelIssue") => Range(calls[j].labels) \subseteq FetchedLabelNames
    /\ \A k \in 1..Len(result.details) :
         Range(result.details[k].appliedLabels) \subseteq FetchedLabelNames

C7_Witness ==
  /\ outcome.kind = "returned"
  /\ ~config.createMissingLabels
  /\ \E j \in 1..Len(calls) :
       /\ IsOkCall(j, "labelIssue")
       /\ ~(CandidateSet(calls[j].issue) \subseteq FetchedLabelNames)

\* C8: with relabelExistingIssues off, an issue fetched with a label has no
\* createLabel call, no labelIssue call and no details record, and never
\* reaches the filter.
C8_LabelledIssuesSkipped ==
  (InRun /\ ~config.relabelExistingIssues) =>
    \A k \in 1..Len(issues) :
      issues[k].labels # {} =>
        /\ \A i \in 1..Len(calls) : calls[i].issue # issues[k].number
        /\ \A d \in 1..Len(result.details) :
             result.details[d].issueNumber # issues[k].number
        /\ \A t \in 1..Len(trace) : trace[t].issue # issues[k].number

C8_Witness ==
  /\ outcome.kind = "returned"
  /\ ~config.relabelExistingIssues
  /\ config.createMissingLabels
  /\ Len(outcome.value.details) >= 1
  /\ \E k \in 1..Len(issues) :
       /\ issues[k].labels # {}
       /\ ~(CandidateSet(issues[k].number) \subseteq availableLabelNames)

\* C9: the labels of a labelIssue call are, without duplicate, the labels of
\* all the rules matching the issue that are known, and a run calls
\* labelIssue at most once per issue.
C9_UnionInOneCall ==
  \A i \in 1..Len(calls) :
    IsCall(i, "labelIssue") =>
      /\ NoDup(calls[i].labels)
      /\ Range(calls[i].labels) = CandidateSet(calls[i].issue) \cap calls[i].known
      /\ \A j \in 1..Len(calls) :
           (IsCall(j, "labelIssue") /\ calls[j].issue = calls[i].issue) => i = j

C9_Witness ==
  \E i \in 1..Len(calls) :
    /\ IsOkCall(i, "labelIssue")
    /\ Cardinality(MatchingRules(calls[i].issue)) = 2
    /\ rules[1] # rules[2]
    /\ Range(rules[1].labels) \cap Range(rules[2].labels) # {}
    /\ Len(calls[i].labels) = 2

IsOkLabelIssue(c) == c.op = "labelIssue" /\ c.err = ""

\* C10: an issue that reaches the filter gets a labelIssue call exactly when
\* some candidate is known then, with exactly the known candidates; and the
\* details records are, in order, the successful labelIssue calls with the
\* issue's number and title and the call's label list.
C10_AppliedExactlyValid ==
  /\ \A t \in 1..Len(trace) :
       LET valid == CandidateSet(trace[t].issue) \cap trace[t].known
           js == {j \in 1..Len(calls) :
                    IsCall(j, "labelIssue") /\ calls[j].issue = trace[t].issue}
       IN  /\ NotSkipped(FetchedIssue(trace[t].issue))
           /\ valid = {} => js = {}
           /\ valid # {} => js # {}
           /\ \A j \in js : Range(calls[j].labels) = valid /\ calls[j].known = trace[t].known
  /\ \A j \in 1..Len(calls) :
       IsCall(j, "labelIssue") => \E t \in 1..Len(trace) : trace[t].issue = calls[j].issue
  /\ LET applied == SelectSeq(calls, IsOkLabelIssue)
     IN  /\ Len(result.details) = Len(applied)
         /\ \A k \in 1..Len(applied) :
              result.details[k] =
                [issueNumber |-> applied[k].issue,
                 title |-> FetchedIssue(applied[k].issue).title,
                 appliedLabels |-> applied[k].labels]

C10_Witness ==
  /\ outcome.kind = "returned"
  /\ \E k \in 1..Len(outcome.value.details) :
       LET d == outcome.value.details[k]
       IN  /\ Range(d.appliedLabels) # CandidateSet(d.issueNumber)
           /\ d.title = <<"login">>
  /\ \E t \in 1..Len(trace) : CandidateSet(trace[t].issue) \cap trace[t].known = {}

\* a run() invoked right after another run(), the skip policy being on
SecondRunSkipping == prev.valid /\ ~config.relabelExistingIssues

LabelsNothing ==
  /\ result.labeledIssues = 0
  /\ outcome.value.labeledIssues = 0
  /\ \A i \in 1..Len(calls) : ~IsCall(i, "labelIssue")

IsFetch(i) == calls[i].op \in {"getRepoIssues", "getRepoLabels"}

\* C12: a failing getRepoIssues or getRepoLabels is the last gateway call of
\* the run: the run throws that error with no result, no createLabel or
\* labelIssue call is made, and getRepoLabels is not called after a failing
\* getRepoIssues.
C12_FetchFailureAborts ==
  \A i \in 1..Len(calls) :
    (IsFetch(i) /\ calls[i].err # "") =>
      /\ i = Len(calls)
      /\ pc = "done"
      /\ outcome = Threw(calls[i].err)
      /\ result.details = <<>>
      /\ trace = <<>>
      /\ \A j \in 1..Len(calls) : ~IsCall(j, "createLabel") /\ ~IsCall(j, "labelIssue")
      /\ IsCall(i, "getRepoIssues") => \A j \in 1..Len(calls) : ~IsCall(j, "getRepoLabels")

C12_Witness ==
  /\ pc = "done"
  /\ Len(calls) = 2
  /\ LastCall.op = "getRepoLabels"
  /\ LastCall.err # ""
  /\ outcome.kind = "threw"
  /\ config.createMissingLabels
  /\ \E k \in 1..Len(issues) :
       \E r \in Range(rules) : PatternTest(r.pattern, IssueText(issues[k]))

\* a returned result covers every fetched issue and comes with no error
ReturnedComplete ==
  /\ outcome.error = ""
  /\ outcome.value = result
  /\ outcome.value.totalIssues = Len(issues)
  /\ idx = Len(issues) + 1
  /\ \A k \in 1..Len(issues) :
       NotSkipped(issues[k]) =>
         \E t \in 1..Len(trace) : trace[t].issue = issues[k].number
  /\ \A i \in 1..Len(calls) : calls[i].err # "" => IsCall(i, "createLabel")

\* C13 as stated: a finished run() either returned a complete result or
\* threw, with no result, the error its last gateway call raised.
C13_Original ==
  /\ pc # "done" => outcome = NoOutcome
  /\ pc = "done" =>
       /\ outcome.kind \in {"returned", "threw"}
       /\ outcome.kind = "returned" => ReturnedComplete
       /\ outcome.kind = "threw" =>
            /\ outcome.value = EmptyResult
            /\ calls # <<>>
            /\ LastCall.err # ""
            /\ outcome.error = LastCall.err
            /\ ~IsCall(Len(calls), "createLabel")

\* C13 (amended): a finished run() either returned a result that covers
\* every fetched issue, no error with it, or threw with no result, the error
\* being the no-rules error when no gateway call was made and else the error
\* the last gateway call raised; an unfinished one has neither.
C13_ResultOrError ==
  /\ pc # "done" => outcome = NoOutcome
  /\ pc = "done" =>
       /\ outcome.kind \in {"returned", "threw"}
       /\ outcome.kind = "returned" => ReturnedComplete
       /\ outcome.kind = "threw" =>
            /\ outcome.value = EmptyResult
            /\ IF calls = <<>>
               THEN Len(rules) = 0 /\ outcome.error = "NoRulesDefined"
               ELSE /\ LastCall.err # ""
                    /\ outcome.error = LastCall.err
                    /\ ~IsCall(Len(calls), "createLabel")

C13_Witness ==
  /\ pc = "done"
  /\ outcome.kind = "threw"
  /\ Len(calls) > 0
  /\ LastCall.op = "labelIssue"
  /\ Len(LastCall.requests) = 1
  /\ outcome.error \in GatewayErrors
  /\ result.labeledIssues >= 1

\* the position of issue n in the fetched list
FetchPosition(n) == CHOOSE k \in 1..Len(issues) : issues[k].number = n

\* call i is a createLabel or a labelIssue call
IsWrite(i) == calls[i].op \in {"createLabel", "labelIssue"}

\* C14: the createLabel and labelIssue calls are made for one issue at a
\* time, in fetch order: every call for an earlier issue precedes every call
\* for a later one, the labelIssue call of an issue follows all its createLabel
\* calls, no call is made for an issue the loop has not reached, and the issues
\* reach the filter in fetch order.
C14_OneIssueAtATime ==
  /\ \A i \in 1..Len(calls) :
       IsWrite(i) =>
         /\ \E k \in 1..Len(issues) : issues[k].number = calls[i].issue
         /\ FetchPosition(calls[i].issue) <= idx
         /\ \A j \in (i + 1)..Len(calls) :
              /\ IsWrite(j)
              /\ FetchPosition(calls[i].issue) <= FetchPosition(calls[j].issue)
              /\ IsCall(i, "labelIssue") =>
                   FetchPosition(calls[i].issue) < FetchPosition(calls[j].issue)
  /\ \A t \in 1..Len(trace) :
       /\ FetchPosition(trace[t].issue) <= idx
       /\ \A u \in (t + 1)..Len(trace) :
            FetchPosition(trace[t].issue) < FetchPosition(trace[u].issue)

C14_Witness ==
  /\ pc = "done"
  /\ outcome.kind = "returned"
  /\ Len(calls) = 6
  /\ IsOkCall(3, "createLabel")
  /\ IsOkCall(4, "labelIssue")
  /\ IsCall(5, "createLabel")
  /\ IsOkCall(6, "labelIssue")
  /\ calls[3].issue = calls[4].issue
  /\ calls[5].issue = calls[6].issue
  /\ calls[4].issue # calls[6].issue

\* C15: a run() with a rule calls getRepoIssues first and once, getRepoLabels
\* second and at most once, both before any createLabel or labelIssue call;
\* the known-label set is what getRepoLabels returned plus the names created
\* so far in the run, and a call changes it only by adding the name it created.
C15_FetchOnceThenGrow ==
  (InRun /\ Len(rules) >= 1) =>
    /\ pc # "getRepoIssues" => Len(calls) >= 1
    /\ pc \in {"issueLoop", "createLoop", "apply"} => Len(calls) >= 2
    /\ \A i \in 1..Len(calls) :
         /\ IsCall(i, "getRepoIssues") <=> i = 1
         /\ IsCall(i, "getRepoLabels") <=> i = 2
         /\ i >= 2 => IsOkCall(1, "getRepoIssues")
         /\ i >= 3 => IsOkCall(2, "getRepoLabels")
         /\ IsWrite(i) => calls[i].known = calls[2].ret \cup CreatedBefore(i)
         /\ IsFetch(i) => calls[i].known = {}
         /\ i >= 2 =>
              KnownAfter(i) =
                IF IsOkCall(i, "getRepoLabels") THEN calls[i].ret
                ELSE IF IsOkCall(i, "createLabel")
                     THEN calls[i].known \cup {calls[i].name}
                     ELSE calls[i].known
    /\ \A t \in 1..Len(trace) :
         trace[t].known \subseteq calls[2].ret \cup CreatedBefore(Len(calls) + 1)

C15_Witness ==
  /\ pc = "done"
  /\ outcome.kind = "returned"
  /\ Len(calls) >= 5
  /\ calls[2].ret # {}
  /\ IsOkCall(3, "createLabel")
  /\ calls[3].name \notin calls[2].ret
  /\ IsOkCall(4, "labelIssue")
  /\ calls[4].known = calls[2].ret \cup {calls[3].name}
  /\ calls[5].known = calls[4].known

\* the labelIssue calls among the first i calls that returned
OkLabelIssueUpTo(i) == {h \in 1..i : IsOkCall(h, "labelIssue")}

\* C16: details holds one record per labelIssue call that returned and no
\* other, the k-th record being that of the k-th such call, and its issue
\* numbers run in the order the issues were fetched.
C16_DetailsFollowApplied ==
  /\ Len(result.details) = Cardinality(OkLabelIssueUpTo(Len(calls)))
  /\ \A i \in OkLabelIssueUpTo(Len(calls)) :
       result.details[Cardinality(OkLabelIssueUpTo(i))].issueNumber = calls[i].issue
  /\ \A k \in 1..Len(result.details) :
       /\ \E p \in 1..Len(issues) : issues[p].number = result.details[k].issueNumber
       /\ \A l \in (k + 1)..Len(result.details) :
            FetchPosition(result.details[k].issueNumber)
              < FetchPosition(result.details[l].issueNumber)

C16_Witness ==
  /\ pc = "done"
  /\ outcome.kind = "returned"
  /\ Len(issues) = 2
  /\ Len(result.details) = 2
  /\ result.details[1].issueNumber = issues[1].number
  /\ result.details[2].issueNumber = issues[2].number
  /\ \E i \in 1..Len(calls) : IsCall(i, "createLabel") /\ calls[i].err # ""

\* the issues of the repository in the state the run asked for
IssuesInState(state) ==
  {n \in RepoIssueNumbers : state = "all" \/ RepoIssueState(n) = state}

\* C17: once getRepoIssues has returned, totalIssues is the number of issues
\* it returned, the skipped and the unmatched ones included, and labeledIssues
\* never exceeds it.
C17_TotalCountsFetched ==
  /\ result.labeledIssues <= result.totalIssues
  /\ (Len(calls) >= 1 /\ IsOkCall(1, "getRepoIssues")) =>
       /\ result.totalIssues = Len(issues)
       /\ result.totalIssues = Cardinality(IssuesInState(calls[1].state))
       /\ {issues[k].number : k \in 1..Len(issues)} = IssuesInState(calls[1].state)
  /\ (pc = "done" /\ outcome.kind = "returned") =>
       outcome.value.totalIssues = Len(issues)

C17_Witness ==
  /\ pc = "done"
  /\ outcome.kind = "returned"
  /\ outcome.value.totalIssues = 2
  /\ outcome.value.labeledIssues = 0
  /\ \E k \in 1..Len(issues) : ~NotSkipped(issues[k])
  /\ \E k \in 1..Len(issues) :
       NotSkipped(issues[k]) /\ MatchingRules(issues[k].number) = {}

\* the candidates of the issue of trace entry t that were known at its filter
FilteredSet(t) == CandidateSet(trace[t].issue) \cap trace[t].known

\* C18: labelIssue is never called with an empty list; an issue whose
\* filtered set is empty gets no labelIssue call and no details record, is
\* not counted in labeledIssues, and the loop moves past it.
C18_EmptySetNotApplied ==
  /\ \A i \in 1..Len(calls) : IsCall(i, "labelIssue") => Len(calls[i].labels) > 0
  /\ \A t \in 1..Len(trace) :
       FilteredSet(t) = {} =>
         /\ \A i \in 1..Len(calls) :
              ~(IsCall(i, "labelIssue") /\ calls[i].issue = trace[t].issue)
         /\ \A k \in 1..Len(result.details) :
              result.details[k].issueNumber # trace[t].issue
         /\ FetchPosition(trace[t].issue) < idx
         /\ (pc = "done" /\ t = Len(trace)) => outcome.kind = "returned"
  /\ result.labeledIssues <= Cardinality({t \in 1..Len(trace) : FilteredSet(t) # {}})

C18_Witness ==
  /\ pc = "done"
  /\ outcome.kind = "returned"
  /\ Len(trace) = 2
  /\ CandidateSet(trace[1].issue) # {}
  /\ FilteredSet(1) = {}
  /\ FilteredSet(2) # {}
  /\ result.labeledIssues = 1

\* the first matching rule of issue n that proposes label l, and the first
\* position of l in that rule's labels
FirstRule(n, l) ==
  CHOOSE i \in MatchingRules(n) :
    /\ l \in Range(rules[i].labels)
    /\ \A j \in MatchingRules(n) : l \in Range(rules[j].labels) => i <= j

FirstIndex(n, l) ==
  CHOOSE p \in 1..Len(rules[FirstRule(n, l)].labels) :
    /\ rules[FirstRule(n, l)].labels[p] = l
    /\ \A q \in 1..(p - 1) : rules[FirstRule(n, l)].labels[q] # l

\* label a is first seen before label b in the rule evaluation of issue n
SeenBefore(n, a, b) ==
  \/ FirstRule(n, a) < FirstRule(n, b)
  \/ /\ FirstRule(n, a) = FirstRule(n, b)
     /\ FirstIndex(n, a) < FirstIndex(n, b)

\* labels is duplicate-free and in first-seen order for issue n
InFirstSeenOrder(n, labels) ==
  /\ NoDup(labels)
  /\ Range(labels) \subseteq CandidateSet(n)
  /\ \A p \in 1..Len(labels) : \A q \in (p + 1)..Len(labels) :
       SeenBefore(n, labels[p], labels[q])

\* C19: the appliedLabels of every details record, and the list of every
\* labelIssue call, has no duplicates and lists the labels in the order the
\* rule evaluation first saw them.
C19_FirstSeenOrder ==
  /\ \A k \in 1..Len(result.details) :
       InFirstSeenOrder(result.details[k].issueNumber, result.details[k].appliedLabels)
  /\ \A i \in 1..Len(calls) :
       IsCall(i, "labelIssue") => InFirstSeenOrder(calls[i].issue, calls[i].labels)

C19_Witness ==
  /\ pc = "done"
  /\ outcome.kind = "returned"
  /\ Len(rules) >= 2
  /\ rules[1] = AuthRule
  /\ \E k \in 1..Len(result.details) :
       /\ result.details[k].appliedLabels = <<"security", "bug">>
       /\ Cardinality(MatchingRules(result.details[k].issueNumber)) >= 2

\* the rule lists that hold the rules of s in some order
Reorderings(s) ==
  {[i \in 1..Len(s) |-> s[f[i]]] :
     f \in {g \in [1..Len(s) -> 1..Len(s)] : \A a, b \in 1..Len(s) : g[a] = g[b] => a = b}}

\* the set of labels an engine holding the rules rs applies to issue n when
\* the known-label set is known
AppliedSet(rs, n, known) ==
  Range(ValidLabels(MatchRules(rs, IssueText(FetchedIssue(n)), <<>>), known))

\* every labelIssue call carries the set of labels that any reordering of the
\* rules yields for its issue
OrderFree ==
  \A i \in 1..Len(calls) :
    IsCall(i, "labelIssue") =>
      \A rs \in Reorderings(rules) :
        Range(calls[i].labels) = AppliedSet(rs, calls[i].issue, calls[i].known)

\* a step that changes the rule list puts one or two rules behind the ones
\* it holds
RulesAppended ==
  rules' # rules =>
    /\ Len(rules') \in {Len(rules) + 1, Len(rules) + 2}
    /\ SubSeq(rules', 1, Len(rules)) = rules
    /\ \A k \in (Len(rules) + 1)..Len(rules') : rules'[k] \in RuleInputs

\* C20: addRule and addRules append to the rule list, keeping what it holds
\* in order, and the order of the list has no effect on the set of labels
\* applied to an issue.
C20_OrderCarriesNoPriority == []OrderFree /\ [][RulesAppended]_vars

C20_Witness ==
  /\ pc = "done"
  /\ outcome.kind = "returned"
  /\ Len(rules) = 2
  /\ rules[1] # rules[2]
  /\ \E i \in 1..Len(calls) :
       /\ IsOkCall(i, "labelIssue")
       /\ Cardinality(MatchingRules(calls[i].issue)) = 2
       /\ Cardinality(Range(calls[i].labels)) = 2

\* a setConfig(partial) step replaces the fields of partial and nothing else
SetConfigFrame ==
  \A partial \in ConfigPartials :
    setConfig(partial) =>
      /\ \A f \in ConfigFields :
           config'[f] = IF f \in DOMAIN partial THEN partial[f] ELSE config[f]
      /\ rules' = rules
      /\ UNCHANGED <<runs, gatewayVars>>

\* the run in progress follows the configuration the engine holds
RunFollowsConfig ==
  InRun =>
    /\ \A i \in 1..Len(calls) :
         /\ IsCall(i, "getRepoIssues") => calls[i].state = config.issueState
         /\ IsCall(i, "createLabel") =>
              config.createMissingLabels /\ calls[i].color = CreateColor(config)
    /\ \A t \in 1..Len(trace) : NotSkipped(FetchedIssue(trace[t].issue))

\* C21: setConfig(partial) replaces the fields given in partial and keeps
\* every other field and the rule list; called before a run or between two
\* runs, the run that follows works with the merged configuration.
C21_SetConfigMerges == [][SetConfigFrame]_vars /\ []RunFollowsConfig

\* issueState "all" together with createMissingLabels is no constructor
\* override: the state is reached through setConfig only
C21_Witness ==
  /\ pc = "done"
  /\ outcome.kind = "returned"
  /\ config.issueState = "all"
  /\ config.createMissingLabels
  /\ ~config.relabelExistingIssues
  /\ calls[1].state = "all"
  /\ \E i \in 1..Len(calls) : IsOkCall(i, "createLabel")

\* a constructor step gives an engine with no rule and the defaults with the
\* fields of the overrides replaced
ConstructorEffect ==
  \A overrides \in ConfigPartials :
    constructor(overrides) =>
      /\ rules' = <<>>
      /\ pc' = "idle"
      /\ \A f \in ConfigFields :
           config'[f] = IF f \in DOMAIN overrides THEN overrides[f] ELSE DEFAULT_CONFIG[f]

\* C22: a new engine has no rule and the default configuration with exactly
\* the overridden fields replaced, whatever engines were built and configured
\* before it, and the shared default object keeps its values.
C22_FreshEngine == [][ConstructorEffect]_vars /\ [](defaultConfig = DEFAULT_CONFIG)

\* a "security" label on an issue shows that an engine with rules has run; an
\* idle engine with no rule is then one constructed after it
C22_Witness ==
  /\ pc = "idle"
  /\ rules = <<>>
  /\ \E n \in RepoIssueNumbers : "security" \in issueLabels[n]
  /\ config = [DEFAULT_CONFIG EXCEPT !.issueState = "closed"]
  /\ defaultConfig = DEFAULT_CONFIG

\* C23: the first gateway call of a run() is getRepoIssues with the
\* issueState the engine held when run() was invoked, whatever setConfig did
\* while the run was suspended; the run makes no other issue fetch and works
\* on the issues in that state.
C23_FetchWithStateAtInvocation ==
  (InRun /\ atRun.valid) =>
    /\ pc # "getRepoIssues" /\ Len(atRun.rules) >= 1 => Len(calls) >= 1
    /\ \A i \in 1..Len(calls) :
         /\ IsCall(i, "getRepoIssues") <=> i = 1
         /\ i = 1 => calls[i].state = atRun.config.issueState
    /\ (Len(calls) >= 1 /\ IsOkCall(1, "getRepoIssues")) =>
         {issues[k].number : k \in 1..Len(issues)} = IssuesInState(atRun.config.issueState)

C23_Witness ==
  /\ pc = "done"
  /\ outcome.kind = "returned"
  /\ atRun.config = DEFAULT_CONFIG
  /\ config.issueState = "all"
  /\ calls[1].state = "open"
  /\ Len(issues) = 1
  /\ Len(calls) >= 3

\* the result of the run in progress counts the calls of this run only
OwnResult ==
  /\ result.totalIssues = Len(issues)
  /\ result.labeledIssues = Cardinality(OkLabelIssueUpTo(Len(calls)))
  /\ result.labelsCreated = Cardinality({i \in 1..Len(calls) : IsOkCall(i, "createLabel")})
  /\ Len(result.details) = Cardinality(OkLabelIssueUpTo(Len(calls)))
  /\ \A k \in 1..Len(result.details) :
       \E i \in 1..Len(calls) :
         /\ IsOkCall(i, "labelIssue")
         /\ calls[i].issue = result.details[k].issueNumber
         /\ calls[i].labels = result.details[k].appliedLabels

\* while the second run goes on, what the first run returned stays as it was
FirstResultKept ==
  (prev.valid /\ runs' = runs /\ pc' # "idle") => prev'.outcome = prev.outcome

\* C24: a run() that follows another on the same engine starts from a zero
\* result, its counters and details hold what this run did and nothing of the
\* run before, and the result the run before returned is left as it was.
C24_FreshResultPerRun ==
  /\ [](prev.valid => (OwnResult /\ (pc = "getRepoIssues" => result = EmptyResult)))
  /\ [][FirstResultKept]_vars

C24_Witness ==
  /\ prev.valid
  /\ prev.outcome.kind = "returned"
  /\ prev.outcome.value.labeledIssues = 2
  /\ prev.outcome.value.labelsCreated >= 1
  /\ pc = "done"
  /\ outcome.kind = "returned"
  /\ outcome.value.labeledIssues = 2
  /\ outcome.value.labelsCreated = 0

\* the names whose creation succeeded among the first n calls of history c
CreatedIn(c, n) ==
  {c[h].name : h \in {g \in 1..n : c[g].op = "createLabel" /\ c[g].err = ""}}

\* an invocation with call history c and known-label set known holds
\* what its own getRepoLabels returned and what it created itself
CacheOwn(c, known) ==
  /\ (Len(c) < 2 \/ c[2].err # "") => known = {}
  /\ (Len(c) >= 2 /\ c[2].err = "") => known = c[2].ret \cup CreatedIn(c, Len(c))
  /\ \A i \in 1..Len(c) :
       c[i].op \in {"createLabel", "labelIssue"} =>
         c[i].known = c[2].ret \cup CreatedIn(c, i - 1)

\* C25: the known-label set of a run() invocation holds the names its own
\* getRepoLabels call returned and the names it created itself, and nothing
\* else: a name another invocation added, before it or in turns with it, is in
\* it only when this invocation fetched or created it.
C25_CacheOwnedByInvocation ==
  /\ InRun => CacheOwn(calls, availableLabelNames)
  /\ other.pc # "none" => CacheOwn(other.calls, other.availableLabelNames)

\* both invocations are over; the one that fetched the labels before the
\* other created a name asked for that name to be created again
C25_Witness ==
  /\ pc = "done"
  /\ other.pc = "done"
  /\ outcome.kind = "returned"
  /\ other.outcome.kind = "returned"
  /\ \E i \in 1..Len(calls) : \E j \in 1..Len(other.calls) :
       /\ IsCall(i, "createLabel")
       /\ other.calls[j].op = "createLabel"
       /\ other.calls[j].err = ""
       /\ other.calls[j].name = calls[i].name
       /\ calls[i].name \notin calls[2].ret

\* the labels that the rule list rs proposes for the fetched issue n
ProposedBy(rs, n) == Range(MatchRules(rs, IssueText(FetchedIssue(n)), <<>>))

\* C26: every createLabel and labelIssue call of a run() carries labels that
\* the rule list of the moment run() was invoked proposes for its issue, and
\* each labelIssue call carries all of those that were known, even when
\* addRule was called while the run was suspended.
C26_RulesFixedForRun ==
  (InRun /\ atRun.valid) =>
    \A i \in 1..Len(calls) :
      /\ IsCall(i, "createLabel") => calls[i].name \in ProposedBy(atRun.rules, calls[i].issue)
      /\ IsCall(i, "labelIssue") =>
           Range(calls[i].labels) = ProposedBy(atRun.rules, calls[i].issue) \cap calls[i].known

\* no issue has two labelIssue calls and no issue and label two createLabel
\* calls in one run
AtMostOnce ==
  \A i, j \in 1..Len(calls) :
    (i # j /\ calls[i].issue = calls[j].issue) =>
      /\ ~(IsCall(i, "labelIssue") /\ IsCall(j, "labelIssue"))
      /\ ~(IsCall(i, "createLabel") /\ IsCall(j, "createLabel")
           /\ calls[i].name = calls[j].name)

\* C27: a run() that was invoked ends, by returning or by throwing, when
\* every gateway call settles; on the way it makes at most one labelIssue call
\* per issue and at most one createLabel call per issue and label.
C27_RunTerminates ==
  /\ []AtMostOnce
  /\ (pc \in {"getRepoIssues", "getRepoLabels", "issueLoop", "createLoop", "apply"})
       ~> (pc = "done")

C27_Witness ==
  /\ pc = "done"
  /\ runs = 2
  /\ outcome.kind = "returned"
  /\ Len(issues) = 2
  /\ Len(rules) = 2
  /\ result.labeledIssues = 2

(* ------------------ the client called on its own ------------------ *)
\* the last call on the client had a malformed argument
MalformedCall ==
  \/ /\ direct.op \in {"labelIssue", "setIssueLabels"}
     /\ (direct.issueNumber \in {0, Absent} \/ ~direct.labels.array)
  \/ direct.op = "removeIssueLabel" /\ direct.issueNumber \in {0, Absent}
  \/ /\ direct.op = "createLabel"
     /\ (direct.name = "" \/ (~direct.color.hash /\ direct.color.hex = ""))

\* C28: labelIssue and setIssueLabels with an issueNumber of 0 or none, or
\* with labels that are no array, throw the 'Invalid parameters' error;
\* removeIssueLabel with an issueNumber of 0 or none throws; createLabel with
\* an empty name or color throws; none of them sends a request, and the
\* tracker's labels stay as they were.
C28_MalformedRejected ==
  /\ [](MalformedCall =>
         /\ direct.err # ""
         /\ direct.op \in {"labelIssue", "setIssueLabels"} => direct.err = "InvalidParameters"
         /\ direct.requests = <<>>)
  /\ [][MalformedCall' => UNCHANGED gatewayVars]_vars

C28_Witness ==
  /\ direct.op = "setIssueLabels"
  /\ direct.issueNumber \in RepoIssueNumbers
  /\ ~direct.labels.array
  /\ direct.err = "InvalidParameters"
  /\ direct.requests = <<>>

\* C29: in a labelIssue call an add-labels request is the second request,
\* sent after a lookup of the same issue that the tracker answered; a call
\* with well-formed arguments starts with that lookup; when the lookup
\* fails, the call throws the lookup's error and the lookup is its only
\* request.
C29_LookupBeforeAdd ==
  direct.op = "labelIssue" =>
    /\ \A i \in 1..Len(direct.requests) :
         direct.requests[i].api = "issues.addLabels" =>
           /\ i = 2
           /\ direct.requests[1].api = "issues.get"
           /\ direct.requests[1].issue = direct.issueNumber
           /\ direct.replies[1] = ""
    /\ ~MalformedCall =>
         /\ Len(direct.requests) >= 1
         /\ direct.requests[1].api = "issues.get"
         /\ direct.requests[1].issue = direct.issueNumber
    /\ (Len(direct.requests) >= 1 /\ direct.replies[1] # "") =>
         /\ direct.err = direct.replies[1]
         /\ Len(direct.requests) = 1

C29_Witness ==
  /\ direct.op = "labelIssue"
  /\ direct.issueNumber \notin RepoIssueNumbers
  /\ direct.labels = ArrayOf(<<"bug">>)
  /\ Len(direct.requests) = 1
  /\ direct.replies = <<"NotFound">>
  /\ direct.err = "NotFound"

\* C30: a createLabel call with a name and a color sends one request, a
\* create request with the name given, the color given without its leading
\* '#' (as given when it has none) and the description given, or '' when
\* none was given; when the tracker answers, the call returns the label
\* data of the answer.
C30_CreateRequest ==
  (direct.op = "createLabel" /\ ~MalformedCall) =>
    /\ Len(direct.requests) = 1
    /\ direct.requests[1].api = "issues.createLabel"
    /\ direct.requests[1].name = direct.name
    /\ direct.requests[1].color = [hash |-> FALSE, hex |-> direct.color.hex]
    /\ ~direct.color.hash => direct.requests[1].color = direct.color
    /\ direct.requests[1].description =
         (IF direct.description = Omitted THEN <<>> ELSE direct.description)
    /\ direct.replies[1] = "" =>
         /\ direct.err = ""
         /\ direct.ret = {[name |-> direct.requests[1].name,
                           color |-> direct.requests[1].color,
                           description |-> direct.requests[1].description]}

C30_Witness ==
  /\ direct.op = "createLabel"
  /\ direct.name = "security"
  /\ direct.color.hash
  /\ direct.description = Omitted
  /\ direct.err = ""
  /\ Len(direct.requests) = 1
  /\ direct.ret # {}
  /\ "security" \in repoLabels

\* C31: a removeIssueLabel call with an issue number sends one request: a
\* remove-label request for the name given when a label is given, a
\* remove-all-labels request when none is given; both requests are for the
\* issue given.
C31_RemoveOneRequest ==
  (direct.op = "removeIssueLabel" /\ ~MalformedCall) =>
    /\ Len(direct.requests) = 1
    /\ direct.requests[1].issue = direct.issueNumber
    /\ direct.name # "" =>
         /\ direct.requests[1].api = "issues.removeLabel"
         /\ direct.requests[1].name = direct.name
    /\ direct.name = "" => direct.requests[1].api = "issues.removeAllLabels"

C31_Witness ==
  /\ direct.op = "removeIssueLabel"
  /\ direct.issueNumber \in RepoIssueNumbers
  /\ direct.name = "bug"
  /\ Len(direct.requests) = 1
  /\ direct.requests[1].api = "issues.removeLabel"
  /\ direct.err = ""
  /\ "bug" \notin issueLabels[direct.issueNumber]

(* --------------------- what a run leaves behind --------------------- *)
\* the run has ended by throwing the error of a labelIssue call
FailedOnLabelIssue ==
  /\ pc = "done"
  /\ outcome.kind = "threw"
  /\ Len(calls) > 0
  /\ LastCall.op = "labelIssue"
  /\ LastCall.err # ""

\* C32: when a run has ended by throwing the error of a labelIssue call,
\* every label it created is a label of the repository and every label it
\* put on an earlier issue is on that issue, and no result is returned.
C32_NoRollback ==
  FailedOnLabelIssue =>
    /\ \A i \in 1..Len(calls) :
         /\ IsOkCall(i, "createLabel") => calls[i].name \in repoLabels
         /\ IsOkCall(i, "labelIssue") =>
              Range(calls[i].labels) \subseteq issueLabels[calls[i].issue]
    /\ outcome.value = EmptyResult

\* a label was created that the repository did not have and a label was put
\* on an issue that did not carry it, and then the run failed
C32_Witness ==
  /\ FailedOnLabelIssue
  /\ \E i \in 1..Len(calls) :
       /\ IsOkCall(i, "createLabel")
       /\ calls[i].name \notin calls[2].ret
  /\ \E i \in 1..Len(calls) :
       /\ IsOkCall(i, "labelIssue")
       /\ \E n \in 1..Len(issues) :
            /\ issues[n].number = calls[i].issue
            /\ ~(Range(calls[i].labels) \subseteq issues[n].labels)

RunStepKeepsEngine == pc' # "idle" => (rules' = rules /\ config' = config)

\* C34: no step of run(), from its invocation to its return or throw,
\* changes the engine's rule list or configuration.
C34_RunLeavesEngine == [][RunStepKeepsEngine]_vars

\* a second run on the same engine has failed after a first one
C34_Witness ==
  /\ pc = "done"
  /\ runs = 2
  /\ outcome.kind = "threw"
  /\ Len(calls) = 4
  /\ Len(rules) = 2
  /\ config # DEFAULT_CONFIG

\* the gateway operations of the run so far and the requests they sent
OnlyReadsAndAdds ==
  \A i \in 1..Len(calls) :
    /\ calls[i].op \in {"getRepoIssues", "getRepoLabels", "createLabel", "labelIssue"}
    /\ \A k \in 1..Len(calls[i].requests) :
         calls[i].requests[k].api \in
           {"issues.listForRepo", "issues.listLabelsForRepo", "issues.createLabel",
            "issues.get", "issues.addLabels"}

\* a step takes no label from an issue and no label from the repository
LabelsOnlyGrow ==
  /\ repoLabels \subseteq repoLabels'
  /\ \A n \in RepoIssueNumbers : issueLabels[n] \subseteq issueLabels'[n]

\* C35: the gateway operations of a run are getRepoIssues, getRepoLabels,
\* createLabel and labelIssue only, and every step of a run leaves each
\* issue with at least the labels it had and the repository with at least
\* the labels it had.
C35_OnlyAdds == []OnlyReadsAndAdds /\ [][LabelsOnlyGrow]_vars

\* an issue that carried a label was given a further one
C35_Witness ==
  /\ pc = "done"
  /\ outcome.kind = "returned"
  /\ \E k \in 1..Len(issues) :
       /\ issues[k].labels # {}
       /\ issues[k].labels \subseteq issueLabels[issues[k].number]
       /\ issues[k].labels # issueLabels[issues[k].number]
  /\ FetchedLabelNames # repoLabels

(* ------------------- a run right after a clean run ------------------- *)
\* a run() invoked right after a run() that returned and in which no gateway
\* call failed, relabelExistingIssues being on
SecondAfterClean ==
  /\ prev.valid
  /\ prev.outcome.kind = "returned"
  /\ ~prev.createFailed
  /\ config.relabelExistingIssues

\* the labelIssue calls of the run so far
LabelIssueCalls == SelectSeq(calls, LAMBDA c : c.op = "labelIssue")

\* a run that returned made the labelIssue calls of the run before and
\* reports what it reported, with no label created
SameAsFirst ==
  LET first == prev.outcome.value
  IN  /\ \A i \in 1..Len(calls) : ~IsCall(i, "createLabel")
      /\ result.labelsCreated = 0
      /\ outcome.value.labelsCreated = 0
      /\ outcome.value.labeledIssues = first.labeledIssues
      /\ outcome.value.details = first.details
      /\ Len(LabelIssueCalls) = Len(first.details)
      /\ \A k \in 1..Len(first.details) :
           /\ LabelIssueCalls[k].issue = first.details[k].issueNumber
           /\ LabelIssueCalls[k].labels = first.details[k].appliedLabels

\* a step of such a run leaves the labels of the repository and of every
\* issue as the run before left them
SecondKeepsRepository ==
  (SecondAfterClean /\ prev' = prev) => UNCHANGED gatewayVars

\* C36: with relabelExistingIssues on, a run() right after a run() without
\* gateway failure changes no label of the repository and of no issue; when
\* it meets no gateway failure either, it makes the same labelIssue calls,
\* creates no label and reports the same labeledIssues and details.
C36_SecondRunSameState ==
  /\ []((SecondAfterClean /\ pc = "done" /\ outcome.kind = "returned") => SameAsFirst)
  /\ [][SecondKeepsRepository]_vars

C36_Witness ==
  /\ SecondAfterClean
  /\ pc = "done"
  /\ outcome.kind = "returned"
  /\ prev.outcome.value.labelsCreated >= 1
  /\ result.labeledIssues = 2
  /\ \E k \in 1..Len(result.details) : Len(result.details[k].appliedLabels) = 2

\* label creation is on and no createLabel call of the run has failed
CreatingWithoutFailure ==
  /\ InRun
  /\ config.createMissingLabels
  /\ \A i \in 1..Len(calls) : IsCall(i, "createLabel") => calls[i].err = ""

\* C37: with createMissingLabels on and no failed createLabel, every
\* candidate of an issue is known at its filter and every labelIssue call
\* carries the labels of all rules that match its issue; a run that returned
\* reports every non-skipped issue that has a candidate, with all of its
\* candidates as appliedLabels.
C37_NothingDropped ==
  CreatingWithoutFailure =>
    /\ \A t \in 1..Len(trace) : CandidateSet(trace[t].issue) \subseteq trace[t].known
    /\ \A i \in 1..Len(calls) :
         IsCall(i, "labelIssue") => Range(calls[i].labels) = CandidateSet(calls[i].issue)
    /\ outcome.kind = "returned" =>
         \A k \in 1..Len(issues) :
           (NotSkipped(issues[k]) /\ CandidateSet(issues[k].number) # {}) =>
             /\ CandidateSet(issues[k].number) \subseteq issueLabels[issues[k].number]
             /\ \E d \in 1..Len(outcome.value.details) :
                  /\ outcome.value.details[d].issueNumber = issues[k].number
                  /\ Range(outcome.value.details[d].appliedLabels) =
                       CandidateSet(issues[k].number)

C37_Witness ==
  /\ CreatingWithoutFailure
  /\ pc = "done"
  /\ outcome.kind = "returned"
  /\ result.labelsCreated >= 1
  /\ Len(rules) = 2
  /\ \E d \in 1..Len(result.details) : Len(result.details[d].appliedLabels) = 2
  /\ \E k \in 1..Len(issues) : ~NotSkipped(issues[k])

(* ------------------------- cloneRepository ------------------------- *)
\* what the attempts made so far allow
CloneSafe ==
  LET n == Len(clone.attempts)
  IN  /\ n <= 3
      /\ clone.retries = Cardinality({i \in 1..n : clone.attempts[i] = "failed"})
      /\ \A i \in 1..(n - 1) : clone.attempts[i] = "failed"
      /\ clone.pc = "loop" =>
           /\ clone.outcome = "none"
           /\ n <= 2
           /\ \A i \in 1..n : clone.attempts[i] = "failed"
      /\ clone.outcome = "returned" =>
           /\ clone.pc = "done"
           /\ n >= 1
           /\ clone.attempts[n] = "ok"
           /\ clone.exists
      /\ clone.outcome = "threw" =>
           /\ clone.pc = "done"
           /\ clone.attempts = <<"failed", "failed", "failed">>
           /\ clone.error = "UnableToClone"
      /\ clone.pc = "done" => clone.outcome \in {"returned", "threw"}

\* C38: cloneRepository makes at most three attempts; an attempt is made
\* only after failures, so the first success is its last attempt and it
\* returns; after one or two failures it is still trying; after three
\* failures it throws the 'Unable to clone repository' error; it returns
\* only after a successful attempt; and once called it ends.
C38_CloneAtMostThrice ==
  /\ []CloneSafe
  /\ (clone.pc = "loop") ~> (clone.pc = "done")

C38_Witness ==
  /\ clone.pc = "done"
  /\ clone.outcome = "returned"
  /\ clone.attempts = <<"failed", "failed", "ok">>

(* ---------------------- the label action handlers ---------------------- *)
\* C39: a label action handler never throws; when a required parameter is
\* missing it returns false without calling the client; when the client
\* call fails it returns false; when the client call succeeds it returns
\* true; and it gives the callback exactly one message.
C39_HandlersNeverThrow ==
  handled.action # "none" =>
    /\ handled.end.ret \in {"true", "false"}
    /\ handled.missing => (handled.end.ret = "false" /\ ~handled.end.clientCalled)
    /\ (handled.end.clientCalled /\ handled.end.clientErr # "") => handled.end.ret = "false"
    /\ (handled.end.clientCalled /\ handled.end.clientErr = "") => handled.end.ret = "true"
    /\ Len(handled.end.callbacks) = 1

====
